---- MODULE Spec2Model ----
(***************************************************************************)
(* A model of the multi-agent hypothesis pipeline of ai-co-scientist:      *)
(* the stage agents (generation, proximity, reflection, ranking,           *)
(* evolution, meta-review), the JSON extraction each of them performs on   *)
(* the raw model text, and the two orchestrators that sequence them.       *)
(*                                                                         *)
(* Numbers are kept in thousandths (0.7 is 700, rank 1 is 1000) so that    *)
(* scores, ranks and the weighted blend stay integers.                     *)
(***************************************************************************)
EXTENDS Integers, Sequences, FiniteSets, TLC

(***************************************************************************)
(* Bounds of the model.                                                    *)
(***************************************************************************)
MaxHyp == 2
MaxRounds == 2

(***************************************************************************)
(* JSON values as json.loads returns them, and Python dictionaries.        *)
(* A dictionary is a function from its keys to values.                     *)
(***************************************************************************)
JNull == [t |-> "null"]
JNum(n) == [t |-> "num", n |-> n]
JStr(s) == [t |-> "str", s |-> s]
JList(items) == [t |-> "list", items |-> items]
JObj(f) == [t |-> "obj", f |-> f]
EmptyDict == <<>>

(***************************************************************************)
(* Raw model text is a sequence of tokens: prose words, the two fence      *)
(* markers, and the JSON punctuation and atoms.                            *)
(***************************************************************************)
Tok(k, s, n) == [k |-> k, s |-> s, n |-> n]
Word == Tok("word", "", 0)
FenceJson == Tok("fence_json", "", 0)
Fence == Tok("fence", "", 0)
LBrace == Tok("{", "", 0)
RBrace == Tok("}", "", 0)
LBrack == Tok("[", "", 0)
RBrack == Tok("]", "", 0)
Comma == Tok(",", "", 0)
Colon == Tok(":", "", 0)
NullTok == Tok("null", "", 0)
StrTok(s) == Tok("str", s, 0)
NumTok(n) == Tok("num", "", n)

(* a string whose text holds three backticks is three pieces of the raw    *)
(* text: the string up to the backticks, the backticks, and its rest       *)
Backticked == {"wrap the script in a code block"}
StrOpen(s) == Tok("str_open", s, 0)
StrClose == Tok("str_close", "", 0)

ParseFail == [ok |-> FALSE, val |-> JNull, nxt |-> 0]
ParseOk(v, i) == [ok |-> TRUE, val |-> v, nxt |-> i]

RECURSIVE ParseValue(_, _)
RECURSIVE ParseElements(_, _, _)
RECURSIVE ParseMembers(_, _, _)

(* json.loads: one value starting at token i *)
ParseValue(toks, i) ==
    IF i > Len(toks) THEN ParseFail
    ELSE LET tk == toks[i] IN
         CASE tk.k = "num" -> ParseOk(JNum(tk.n), i + 1)
           [] tk.k = "str" -> ParseOk(JStr(tk.s), i + 1)
           [] tk.k = "null" -> ParseOk(JNull, i + 1)
           [] tk.k = "str_open" ->
                IF i + 2 <= Len(toks) /\ toks[i + 1].k = "fence"
                                     /\ toks[i + 2].k = "str_close"
                THEN ParseOk(JStr(tk.s), i + 3)
                ELSE ParseFail
           [] tk.k = "[" ->
                IF i + 1 <= Len(toks) /\ toks[i + 1].k = "]"
                THEN ParseOk(JList(<<>>), i + 2)
                ELSE ParseElements(toks, i + 1, <<>>)
           [] tk.k = "{" ->
                IF i + 1 <= Len(toks) /\ toks[i + 1].k = "}"
                THEN ParseOk(JObj(EmptyDict), i + 2)
                ELSE ParseMembers(toks, i + 1, EmptyDict)
           [] OTHER -> ParseFail

ParseElements(toks, i, acc) ==
    LET r == ParseValue(toks, i) IN
    IF ~r.ok \/ r.nxt > Len(toks) THEN ParseFail
    ELSE IF toks[r.nxt].k = "," THEN ParseElements(toks, r.nxt + 1, Append(acc, r.val))
    ELSE IF toks[r.nxt].k = "]" THEN ParseOk(JList(Append(acc, r.val)), r.nxt + 1)
    ELSE ParseFail

ParseMembers(toks, i, acc) ==
    IF i + 1 > Len(toks) \/ toks[i].k # "str" \/ toks[i + 1].k # ":" THEN ParseFail
    ELSE LET r == ParseValue(toks, i + 2) IN
         IF ~r.ok \/ r.nxt > Len(toks) THEN ParseFail
         ELSE LET acc2 == (toks[i].s :> r.val) @@ acc IN
              IF toks[r.nxt].k = "," THEN ParseMembers(toks, r.nxt + 1, acc2)
              ELSE IF toks[r.nxt].k = "}" THEN ParseOk(JObj(acc2), r.nxt + 1)
              ELSE ParseFail

(* json.loads(json_content): the whole content must be exactly one value *)
Loads(toks) ==
    LET r == ParseValue(toks, 1) IN
    IF r.ok /\ r.nxt = Len(toks) + 1 THEN [ok |-> TRUE, val |-> r.val]
    ELSE [ok |-> FALSE, val |-> JNull]

(***************************************************************************)
(* json.dumps, used to build the texts a model may answer with.            *)
(***************************************************************************)
RECURSIVE Dumps(_)
RECURSIVE DumpItems(_, _)
RECURSIVE DumpMembers(_, _)

DumpItems(items, i) ==
    IF i > Len(items) THEN <<>>
    ELSE (IF i > 1 THEN <<Comma>> ELSE <<>>) \o Dumps(items[i]) \o DumpItems(items, i + 1)

DumpMembers(f, keys) ==
    IF keys = {} THEN <<>>
    ELSE LET k == CHOOSE x \in keys : TRUE IN
         <<StrTok(k), Colon>> \o Dumps(f[k])
           \o (IF keys = {k} THEN <<>> ELSE <<Comma>>)
           \o DumpMembers(f, keys \ {k})

Dumps(v) ==
    CASE v.t = "null" -> <<NullTok>>
      [] v.t = "num" -> <<NumTok(v.n)>>
      [] v.t = "str" -> IF v.s \in Backticked THEN <<StrOpen(v.s), Fence, StrClose>>
                        ELSE <<StrTok(v.s)>>
      [] v.t = "list" -> <<LBrack>> \o DumpItems(v.items, 1) \o <<RBrack>>
      [] v.t = "obj" -> <<LBrace>> \o DumpMembers(v.f, DOMAIN v.f) \o <<RBrace>>

(***************************************************************************)
(* Python's str.find, str.rfind and slicing, on token sequences.  Indexes  *)
(* are 0-based as in Python; find gives -1 when nothing is found, and a    *)
(* negative slice bound counts from the end.                               *)
(***************************************************************************)
PyFind(toks, kinds, from) ==
    LET hits == {i \in 1..Len(toks) : i - 1 >= from /\ toks[i].k \in kinds} IN
    IF hits = {} THEN -1 ELSE (CHOOSE i \in hits : \A j \in hits : i <= j) - 1

PyRFind(toks, kinds) ==
    LET hits == {i \in 1..Len(toks) : toks[i].k \in kinds} IN
    IF hits = {} THEN -1 ELSE (CHOOSE i \in hits : \A j \in hits : i >= j) - 1

PyBound(n, i) ==
    IF i < 0 THEN (IF i + n < 0 THEN 0 ELSE i + n) ELSE (IF i > n THEN n ELSE i)

PySlice(toks, a, b) ==
    SubSeq(toks, PyBound(Len(toks), a) + 1, PyBound(Len(toks), b))

HasFence(output) == \E i \in 1..Len(output) : output[i].k = "fence_json"

(* the fenced branch with the closing fence searched from the start of    *)
(* the text                                                                *)
FencedContentFromStart(output) ==
    LET json_start == PyFind(output, {"fence_json"}, 0) + 1
        json_end == PyFind(output, {"fence", "fence_json"}, 0)
    IN PySlice(output, json_start, json_end)

(* the fenced branch shared by every stage: output[json_start:json_end]    *)
FencedContent(output) ==
    LET json_start == PyFind(output, {"fence_json"}, 0) + 1
        json_end == PyFind(output, {"fence", "fence_json"}, json_start)
    IN PySlice(output, json_start, json_end)

(* generation_agent: falls back to the brackets when there is no brace     *)
ExtractGeneration(output) ==
    IF HasFence(output) THEN FencedContent(output)
    ELSE LET b == PyFind(output, {"{"}, 0)
             start_idx == IF b = -1 THEN PyFind(output, {"["}, 0) ELSE b
             e == PyRFind(output, {"}"})
             end_idx == IF e = -1 THEN PyRFind(output, {"]"}) ELSE e
         IN PySlice(output, start_idx, end_idx + 1)

(* the other stages: first brace to last brace only                        *)
ExtractBraces(output) ==
    IF HasFence(output) THEN FencedContent(output)
    ELSE PySlice(output, PyFind(output, {"{"}, 0), PyRFind(output, {"}"}) + 1)

(* smart_orchestrator: the same two branches; end_idx is already one past  *)
(* the last brace                                                          *)
ExtractAdvisor(text) ==
    IF HasFence(text) THEN FencedContent(text)
    ELSE LET start_idx == PyFind(text, {"{"}, 0)
             end_idx == PyRFind(text, {"}"}) + 1
         IN PySlice(text, start_idx, end_idx)

(***************************************************************************)
(* Python operations on parsed values.  Each gives the exception it        *)
(* raises, or "none" and the value.                                        *)
(***************************************************************************)
Ok(v) == [exc |-> "none", val |-> v]
Raise(e) == [exc |-> e, val |-> JNull]

PyTrue == [t |-> "bool", b |-> TRUE]
PyFalse == [t |-> "bool", b |-> FALSE]

(* key in v *)
PyContains(key, v) ==
    CASE v.t = "obj" -> Ok(IF key \in DOMAIN v.f THEN PyTrue ELSE PyFalse)
      [] v.t = "list" -> Ok(IF \E i \in 1..Len(v.items) : v.items[i] = JStr(key)
                            THEN PyTrue ELSE PyFalse)
      [] v.t = "str" -> Ok(IF v.s = key THEN PyTrue ELSE PyFalse)
      [] OTHER -> Raise("TypeError")

(* v[key] for a string key *)
Subscript(v, key) ==
    CASE v.t = "obj" -> IF key \in DOMAIN v.f THEN Ok(v.f[key]) ELSE Raise("KeyError")
      [] OTHER -> Raise("TypeError")

(* the elements a for loop visits *)
Iter(v) ==
    CASE v.t = "list" -> Ok(v.items)
      [] v.t = "str" -> Ok([i \in 1..Len(v.s) |-> JStr("c")])
      [] v.t = "obj" ->
           LET keys == DOMAIN v.f
               order == CHOOSE sq \in [1..Cardinality(keys) -> keys] :
                           \A i, j \in 1..Cardinality(keys) : i # j => sq[i] # sq[j]
           IN Ok([i \in 1..Cardinality(keys) |-> JStr(order[i])])
      [] OTHER -> Raise("TypeError")

(* v[:n]; a dict cannot be sliced *)
SliceTo(v, n) ==
    CASE v.t = "list" -> Ok(JList(SubSeq(v.items, 1, IF n < Len(v.items) THEN n ELSE Len(v.items))))
      [] v.t = "str" -> Ok(v)
      [] OTHER -> Raise("TypeError")

(* e.get(key, default): only a dict has .get *)
Get(e, key, default) ==
    IF e.t = "obj"
    THEN Ok(IF key \in DOMAIN e.f THEN e.f[key] ELSE default)
    ELSE Raise("AttributeError")

(* strings float() accepts, with their value *)
NumericStrings == [s \in {"0.9"} |-> 900]

Float(v) ==
    CASE v.t = "num" -> Ok(v)
      [] v.t = "str" -> IF v.s \in DOMAIN NumericStrings
                        THEN Ok(JNum(NumericStrings[v.s])) ELSE Raise("ValueError")
      [] OTHER -> Raise("TypeError")

(* the first exception of a sequence of evaluations, in evaluation order   *)
FirstExc(rs) ==
    LET bad == {i \in 1..Len(rs) : rs[i].exc # "none"} IN
    IF bad = {} THEN "none" ELSE rs[CHOOSE i \in bad : \A j \in bad : i <= j].exc

(* dictionaries the program builds: d.get(key, default), and copy+update   *)
DGet(d, key, default) == IF key \in DOMAIN d THEN d[key] ELSE default
Update(d, new) == new @@ d

(* str(uuid.uuid4()): the n-th identifier drawn in a run *)
Uuid(n) == JStr("u" \o ToString(n))

(* "hypotheses" in parsed / parsed["hypotheses"] / list / [parsed] *)
Collection(parsed, key) ==
    LET c == PyContains(key, parsed) IN
    IF c.exc # "none" THEN c
    ELSE IF c.val.b THEN Subscript(parsed, key)
    ELSE IF parsed.t = "list" THEN Ok(parsed)
    ELSE Ok(JList(<<parsed>>))

(***************************************************************************)
(* BaseCoScientistAgent.generate_response and run.  A call of the agent's  *)
(* model either answers, or raises and the backup model answers, or both   *)
(* raise and the error text is the response; run never raises.             *)
(***************************************************************************)
BackupModel == "llama-3.3-70b-versatile"

(* "[TEST MODE] Error: Unable to generate response - ..." *)
ErrorText == <<LBrack, Word, Word, RBrack, Word, Word>>

(* "[TEST MODE] Would use ADK default model for: ..." *)
TestModeText == <<LBrack, Word, Word, RBrack, Word, Word, Word>>

(* which client generate_response uses for a model name *)
StartsWithGroqPrefix(model) ==
    \E p \in {"llama-", "gemma2-", "qwen/"} :
        Len(model) >= Len(p) /\ SubSeq(model, 1, Len(p)) = p

Route(model) ==
    IF model = "gemma3:12b" THEN "gemma"
    ELSE IF StartsWithGroqPrefix(model) THEN "groq"
    ELSE "adk"

CallOk(text) == [primary |-> "ok", backup |-> "unused", text |-> text]
CallBackup(text) == [primary |-> "raised", backup |-> "ok", text |-> text]
CallFailed == [primary |-> "raised", backup |-> "raised", text |-> <<>>]
NoCall == [primary |-> "unused", backup |-> "unused", text |-> <<>>]

(* what one invocation of an agent may meet: the model's answers are any   *)
(* of texts; a model name no client serves is never called                 *)
Calls(actual_model, texts, backupTexts) ==
    IF Route(actual_model) = "adk" THEN {NoCall}
    ELSE {CallOk(x) : x \in texts} \cup {CallBackup(x) : x \in backupTexts} \cup {CallFailed}

generate_response(actual_model, call) ==
    IF Route(actual_model) = "adk" THEN TestModeText
    ELSE IF call.primary = "ok" \/ call.backup = "ok" THEN call.text
    ELSE ErrorText

(* result["metadata"] of run: the model the agent is configured with *)
RunMetadata(actual_model) == JObj([model_used |-> JStr(actual_model)])

run(actual_model, call) ==
    [output |-> generate_response(actual_model, call),
     metadata |-> RunMetadata(actual_model)]

(* the models a call reaches, in order *)
ModelsInvoked(actual_model, call) ==
    IF call.primary = "unused" THEN <<>>
    ELSE IF call.primary = "ok" THEN <<actual_model>>
    ELSE <<actual_model, BackupModel>>

(***************************************************************************)
(* GenerationAgent.generate_hypotheses                                     *)
(***************************************************************************)
StageResult(exc, val, used) == [exc |-> exc, val |-> val, used |-> used]

GenerationFallback(result, n0) ==
    <<[id |-> Uuid(n0 + 1),
       title |-> JStr("Generated Hypothesis for"),
       research_approach |-> JStr("Requires further experimental design"),
       agent_metadata |-> result.metadata]>>

ProcessedHypothesis(hyp, i, result, n0) ==
    [id |-> Uuid(n0 + i),
     title |-> Get(hyp, "title", JStr("Hypothesis")).val,
     research_approach |-> Get(hyp, "research_approach", JStr("")).val,
     agent_metadata |-> result.metadata]

(* the body of the try block, given what json.loads made of the text *)
ProcessHypotheses(result, max_hypotheses, n0, parsed) ==
    IF ~parsed.ok THEN StageResult("none", GenerationFallback(result, n0), 1)
    ELSE
    LET coll == Collection(parsed.val, "hypotheses") IN
    IF coll.exc = "KeyError" THEN StageResult("none", GenerationFallback(result, n0), 1)
    ELSE IF coll.exc # "none" THEN StageResult(coll.exc, <<>>, 0)
    ELSE
    LET cut == SliceTo(coll.val, max_hypotheses) IN
    IF cut.exc # "none" THEN StageResult(cut.exc, <<>>, 0)
    ELSE
    LET hyps == Iter(cut.val).val
        exc == FirstExc([i \in 1..Len(hyps) |-> Get(hyps[i], "title", JNull)])
    IN IF exc # "none" THEN StageResult(exc, <<>>, 0)
       ELSE StageResult("none",
                        [i \in 1..Len(hyps) |-> ProcessedHypothesis(hyps[i], i, result, n0)],
                        Len(hyps))

generate_hypotheses(result, max_hypotheses, n0) ==
    ProcessHypotheses(result, max_hypotheses, n0, Loads(ExtractGeneration(result.output)))

(***************************************************************************)
(* ReflectionAgent.critique_hypotheses                                     *)
(***************************************************************************)
(* the fallback with the 0.5 the success path defaults to *)
CritiqueFallbackHalf(hypotheses, result) ==
    [i \in 1..Len(hypotheses) |->
       [hypothesis_id |-> DGet(hypotheses[i], "id", JStr("unknown")),
        validity_score |-> JNum(500),
        novelty_score |-> JNum(500),
        feasibility_score |-> JNum(500),
        impact_score |-> JNum(500),
        specific_critiques |-> JList(<<JStr("Detailed analysis pending")>>),
        agent_metadata |-> result.metadata]]

CritiqueFallback(hypotheses, result) ==
    [i \in 1..Len(hypotheses) |->
       [hypothesis_id |-> DGet(hypotheses[i], "id", JStr("unknown")),
        validity_score |-> JNum(700),
        novelty_score |-> JNum(600),
        feasibility_score |-> JNum(800),
        impact_score |-> JNum(700),
        specific_critiques |-> JList(<<JStr("Detailed analysis pending")>>),
        agent_metadata |-> result.metadata]]

(* "unknown_{i}" for the 0-based position i *)
UnknownId(i) == JStr("unknown_" \o ToString(i))

ScoreFields == <<"validity_score", "novelty_score", "feasibility_score", "impact_score">>

(* float(critique.get(field, 0.5)) *)
ScoreOf(e, field, default) == Float(Get(e, field, JNum(default)).val)

ProcessedCritique(critique, i, hypotheses, result) ==
    [hypothesis_id |-> Get(critique, "hypothesis_id",
                           IF i - 1 < Len(hypotheses) THEN hypotheses[i].id
                           ELSE UnknownId(i - 1)).val,
     validity_score |-> ScoreOf(critique, "validity_score", 500).val,
     novelty_score |-> ScoreOf(critique, "novelty_score", 500).val,
     feasibility_score |-> ScoreOf(critique, "feasibility_score", 500).val,
     impact_score |-> ScoreOf(critique, "impact_score", 500).val,
     specific_critiques |-> Get(critique, "specific_critiques", JList(<<>>)).val,
     agent_metadata |-> result.metadata]

(* the exception building one processed critique raises, fields in order *)
CritiqueExc(critique) ==
    IF critique.t # "obj" THEN "AttributeError"
    ELSE FirstExc([k \in 1..Len(ScoreFields) |-> ScoreOf(critique, ScoreFields[k], 500)])

ProcessCritiques(hypotheses, result, parsed) ==
    IF ~parsed.ok THEN StageResult("none", CritiqueFallback(hypotheses, result), 0)
    ELSE
    LET coll == Collection(parsed.val, "critiques")
        it == IF coll.exc = "none" THEN Iter(coll.val) ELSE coll
        critiques == it.val
        exc == IF it.exc # "none" THEN it.exc
               ELSE FirstExc([i \in 1..Len(critiques) |->
                                [exc |-> CritiqueExc(critiques[i])]])
    IN IF exc \in {"KeyError", "ValueError"}
       THEN StageResult("none", CritiqueFallback(hypotheses, result), 0)
       ELSE IF exc # "none" THEN StageResult(exc, <<>>, 0)
       ELSE StageResult("none",
                        [i \in 1..Len(critiques) |->
                           ProcessedCritique(critiques[i], i, hypotheses, result)],
                        0)

critique_hypotheses(hypotheses, result) ==
    ProcessCritiques(hypotheses, result, Loads(ExtractBraces(result.output)))

(***************************************************************************)
(* RankingAgent.rank_hypotheses                                            *)
(***************************************************************************)
(* next((x for x in xs if x.get(key) == id), None): position, 0 for None *)
FirstMatch(xs, key, id) ==
    LET hits == {i \in 1..Len(xs) : key \in DOMAIN xs[i] /\ xs[i][key] = id} IN
    IF hits = {} THEN 0 ELSE CHOOSE i \in hits : \A j \in hits : i <= j

(* list.sort(key=...): stable, ascending on numeric keys *)
RECURSIVE InsertByKey(_, _, _)
InsertByKey(sorted, x, key) ==
    IF sorted = <<>> THEN <<x>>
    ELSE IF sorted[Len(sorted)][key].n <= x[key].n THEN Append(sorted, x)
    ELSE Append(InsertByKey(SubSeq(sorted, 1, Len(sorted) - 1), x, key), sorted[Len(sorted)])

(* the list left in the order of the model's rankings *)
Unsorted(xs, key) == xs

RECURSIVE SortByKey(_, _)
SortByKey(xs, key) ==
    IF xs = <<>> THEN <<>>
    ELSE InsertByKey(SortByKey(SubSeq(xs, 1, Len(xs) - 1), key), xs[Len(xs)], key)

(* comparing the sort keys raises unless they are all numbers; a list of   *)
(* fewer than two entries compares nothing                                 *)
SortExc(xs, key) ==
    IF Len(xs) >= 2 /\ \E i \in 1..Len(xs) : xs[i][key].t # "num"
    THEN "TypeError" ELSE "none"

RankedHypothesis(ranking, original_hyp, result) ==
    Update(original_hyp,
           [rank |-> Get(ranking, "rank", JNum(999000)).val,
            final_score |-> Float(Get(ranking, "final_score", JNum(500)).val).val,
            ranking_confidence |-> Float(Get(ranking, "confidence", JNum(500)).val).val,
            ranking_metadata |-> result.metadata])

(* the exception handling one ranking entry raises *)
RankingExc(ranking, hypotheses) ==
    IF ranking.t # "obj" THEN "AttributeError"
    ELSE IF FirstMatch(hypotheses, "id", Get(ranking, "hypothesis_id", JNull).val) = 0
         THEN "none"
         ELSE FirstExc(<<Float(Get(ranking, "final_score", JNum(500)).val),
                         Float(Get(ranking, "confidence", JNum(500)).val)>>)

(* the merged entries, in the order of the model's rankings; entries whose  *)
(* hypothesis_id names no input hypothesis are skipped                     *)
RECURSIVE MergeRankings(_, _, _)
MergeRankings(rankings, hypotheses, result) ==
    IF rankings = <<>> THEN <<>>
    ELSE LET ranking == rankings[1]
             m == FirstMatch(hypotheses, "id", Get(ranking, "hypothesis_id", JNull).val)
             rest == MergeRankings(Tail(rankings), hypotheses, result)
         IN IF m = 0 THEN rest
            ELSE <<RankedHypothesis(ranking, hypotheses[m], result)>> \o rest

(* validity * 0.25 + novelty * 0.25 + feasibility * 0.20 + impact * 0.20   *)
(* + 0.8 * 0.10, in thousandths                                            *)
WeightedScore(critique) ==
    (DGet(critique, "validity_score", JNum(500)).n * 25
     + DGet(critique, "novelty_score", JNum(500)).n * 25
     + DGet(critique, "feasibility_score", JNum(500)).n * 20
     + DGet(critique, "impact_score", JNum(500)).n * 20
     + 800 * 10) \div 100

FallbackScore(hyp, i, critiques) ==
    IF critiques # <<>>
    THEN LET m == FirstMatch(critiques, "hypothesis_id", DGet(hyp, "id", JNull)) IN
         IF m # 0 THEN WeightedScore(critiques[m]) ELSE 600
    ELSE 700 - (i - 1) * 100

RankingFallback(hypotheses, critiques, result) ==
    [i \in 1..Len(hypotheses) |->
       Update(hypotheses[i],
              [rank |-> JNum(i * 1000),
               final_score |-> JNum(FallbackScore(hypotheses[i], i, critiques)),
               ranking_confidence |-> JNum(600),
               ranking_metadata |-> result.metadata])]

ProcessRankings(hypotheses, critiques, result, parsed) ==
    IF ~parsed.ok THEN StageResult("none", RankingFallback(hypotheses, critiques, result), 0)
    ELSE
    LET coll == Collection(parsed.val, "rankings")
        it == IF coll.exc = "none" THEN Iter(coll.val) ELSE coll
        rankings == it.val
        exc1 == IF it.exc # "none" THEN it.exc
                ELSE FirstExc([i \in 1..Len(rankings) |->
                                 [exc |-> RankingExc(rankings[i], hypotheses)]])
        merged == MergeRankings(rankings, hypotheses, result)
        exc == IF exc1 # "none" THEN exc1 ELSE SortExc(merged, "rank")
    IN IF exc \in {"KeyError", "ValueError"}
       THEN StageResult("none", RankingFallback(hypotheses, critiques, result), 0)
       ELSE IF exc # "none" THEN StageResult(exc, <<>>, 0)
       ELSE StageResult("none", SortByKey(merged, "rank"), 0)

rank_hypotheses(hypotheses, critiques, result) ==
    ProcessRankings(hypotheses, critiques, result, Loads(ExtractBraces(result.output)))

(***************************************************************************)
(* MetaReviewAgent.final_review                                            *)
(***************************************************************************)
DefaultPlan ==
    JObj([phase_1 |-> JStr("Literature review and preliminary validation"),
          phase_2 |-> JStr("Experimental design and pilot studies"),
          phase_3 |-> JStr("Full implementation and validation")])

ReviewFallback(hypotheses, result) ==
    [i \in 1..Len(hypotheses) |->
       [hypothesis_id |-> DGet(hypotheses[i], "id", JStr("unknown")),
        confidence_rating |-> JNum(700),
        experimental_plan |-> DefaultPlan,
        collaboration_recommendations |->
            JList(<<JStr("Academic partnerships"), JStr("Industry collaboration")>>),
        agent_metadata |-> result.metadata]]

ProcessedReview(review, i, hypotheses, result) ==
    [hypothesis_id |-> Get(review, "hypothesis_id",
                           IF i - 1 < Len(hypotheses) THEN hypotheses[i].id
                           ELSE UnknownId(i - 1)).val,
     confidence_rating |-> Float(Get(review, "confidence_rating", JNum(700)).val).val,
     experimental_plan |-> Get(review, "experimental_plan", JObj(EmptyDict)).val,
     collaboration_recommendations |->
         Get(review, "collaboration_recommendations", JList(<<>>)).val,
     agent_metadata |-> result.metadata]

ReviewExc(review) ==
    IF review.t # "obj" THEN "AttributeError"
    ELSE Float(Get(review, "confidence_rating", JNum(700)).val).exc

ProcessReviews(hypotheses, result, parsed) ==
    IF ~parsed.ok THEN StageResult("none", ReviewFallback(hypotheses, result), 0)
    ELSE
    LET coll == Get(parsed.val, "final_reviews", JList(<<>>))
        it == IF coll.exc = "none" THEN Iter(coll.val) ELSE coll
        final_reviews == it.val
        exc == IF it.exc # "none" THEN it.exc
               ELSE FirstExc([i \in 1..Len(final_reviews) |->
                                [exc |-> ReviewExc(final_reviews[i])]])
    IN IF exc \in {"KeyError", "ValueError"}
       THEN StageResult("none", ReviewFallback(hypotheses, result), 0)
       ELSE IF exc # "none" THEN StageResult(exc, <<>>, 0)
       ELSE StageResult("none",
                        [i \in 1..Len(final_reviews) |->
                           ProcessedReview(final_reviews[i], i, hypotheses, result)],
                        0)

final_review(hypotheses, result) ==
    ProcessReviews(hypotheses, result, Loads(ExtractBraces(result.output)))

(***************************************************************************)
(* EvolutionAgent.evolve_hypotheses: one pass of its loop over the rounds  *)
(***************************************************************************)
(* str(v) inside an f-string *)
Str(v) == IF v.t = "str" THEN v.s ELSE "None"

EvolvedHypothesis(evo_hyp, i, round_num, result, n0) ==
    [id |-> Uuid(n0 + i),
     original_id |-> Get(evo_hyp, "original_id", JStr("unknown")).val,
     title |-> Get(evo_hyp, "title", JStr("Evolved Hypothesis")).val,
     evolution_round |-> JNum(round_num * 1000),
     agent_metadata |-> result.metadata]

EvolutionFallback(current_hypotheses, round_num, result, n0) ==
    [i \in 1..Len(current_hypotheses) |->
       Update(current_hypotheses[i],
              [id |-> Uuid(n0 + i),
               original_id |-> DGet(current_hypotheses[i], "id", JStr("unknown")),
               title |-> JStr("Evolved: "
                              \o Str(DGet(current_hypotheses[i], "title", JStr("Hypothesis")))),
               evolution_round |-> JNum(round_num * 1000),
               agent_metadata |-> result.metadata])]

(* round_num is the 1-based round *)
ProcessEvolved(current_hypotheses, round_num, result, n0, parsed) ==
    LET fallback == StageResult("none",
                                EvolutionFallback(current_hypotheses, round_num, result, n0),
                                Len(current_hypotheses))
    IN
    IF ~parsed.ok THEN fallback
    ELSE
    LET coll == Collection(parsed.val, "evolved_hypotheses")
        it == IF coll.exc = "none" THEN Iter(coll.val) ELSE coll
        evolved == it.val
        exc == IF it.exc # "none" THEN it.exc
               ELSE FirstExc([i \in 1..Len(evolved) |-> Get(evolved[i], "title", JNull)])
    IN IF exc = "KeyError" THEN fallback
       ELSE IF exc # "none" THEN StageResult(exc, <<>>, 0)
       ELSE StageResult("none",
                        [i \in 1..Len(evolved) |->
                           EvolvedHypothesis(evolved[i], i, round_num, result, n0)],
                        Len(evolved))

evolve_round(current_hypotheses, round_num, result, n0) ==
    ProcessEvolved(current_hypotheses, round_num, result, n0,
                   Loads(ExtractBraces(result.output)))

(***************************************************************************)
(* ProximityAgent.retrieve_knowledge; "used" counts the calls of the       *)
(* search adapter (_perform_web_search)                                    *)
(***************************************************************************)
(* bool(v) *)
Truthy(v) ==
    CASE v.t = "null" -> FALSE
      [] v.t = "num" -> v.n # 0
      [] v.t = "str" -> v.s # ""
      [] v.t = "list" -> v.items # <<>>
      [] v.t = "obj" -> DOMAIN v.f # {}

ProcessedAnalysis(analysis, i, hypotheses, result) ==
    [hypothesis_id |-> Get(analysis, "hypothesis_id",
                           IF i - 1 < Len(hypotheses) THEN hypotheses[i].id
                           ELSE UnknownId(i - 1)).val,
     literature_recommendations |-> Get(analysis, "literature_recommendations", JList(<<>>)).val,
     search_queries |-> Get(analysis, "search_queries", JList(<<>>)).val,
     agent_metadata |-> result.metadata]

(* search_queries[:3] is taken only when search_queries is truthy *)
AnalysisExc(analysis) ==
    IF analysis.t # "obj" THEN "AttributeError"
    ELSE LET q == Get(analysis, "search_queries", JList(<<>>)).val IN
         IF Truthy(q) THEN SliceTo(q, 3).exc ELSE "none"

SearchesOf(analyses) ==
    Cardinality({i \in 1..Len(analyses) :
                   Truthy(Get(analyses[i], "search_queries", JList(<<>>)).val)})

(* the fallback concatenates title + " " + description and slices title *)
KnowledgeFallbackExc(hypotheses) ==
    IF \E i \in 1..Len(hypotheses) : DGet(hypotheses[i], "title", JStr("")).t # "str"
    THEN "TypeError" ELSE "none"

KnowledgeFallback(hypotheses, result) ==
    [i \in 1..Len(hypotheses) |->
       [hypothesis_id |-> DGet(hypotheses[i], "id", JStr("unknown")),
        literature_recommendations |-> JList(<<JStr("Recent peer-reviewed literature")>>),
        search_queries |-> JList(<<DGet(hypotheses[i], "title", JStr("")),
                                   JStr("research methodology")>>),
        agent_metadata |-> result.metadata]]

ProcessAnalyses(hypotheses, result, parsed) ==
    LET fallback == IF KnowledgeFallbackExc(hypotheses) # "none"
                    THEN StageResult(KnowledgeFallbackExc(hypotheses), <<>>, 0)
                    ELSE StageResult("none", KnowledgeFallback(hypotheses, result),
                                     Len(hypotheses))
    IN
    IF ~parsed.ok THEN fallback
    ELSE
    LET coll == Collection(parsed.val, "knowledge_analysis")
        it == IF coll.exc = "none" THEN Iter(coll.val) ELSE coll
        analyses == it.val
        exc == IF it.exc # "none" THEN it.exc
               ELSE FirstExc([i \in 1..Len(analyses) |-> [exc |-> AnalysisExc(analyses[i])]])
    IN IF exc = "KeyError" THEN fallback
       ELSE IF exc # "none" THEN StageResult(exc, <<>>, 0)
       ELSE StageResult("none",
                        [i \in 1..Len(analyses) |->
                           ProcessedAnalysis(analyses[i], i, hypotheses, result)],
                        SearchesOf(analyses))

retrieve_knowledge(hypotheses, result) ==
    ProcessAnalyses(hypotheses, result, Loads(ExtractBraces(result.output)))

(***************************************************************************)
(* The orchestrators' assembly: _convert_to_hypothesis_objects,            *)
(* _generate_summary and _generate_recommendations                         *)
(***************************************************************************)
(* next((x for x in xs if x.get(key) == id), {}) *)
MatchOrEmpty(xs, key, id) ==
    LET m == FirstMatch(xs, key, id) IN IF m = 0 THEN EmptyDict ELSE xs[m]

DefaultCitations == JList(<<JStr("Literature review pending"),
                            JStr("Domain-specific references needed")>>)

IsListOfStr(v) == v.t = "list" /\ \A i \in 1..Len(v.items) : v.items[i].t = "str"

HypothesisObject(hyp_data, critiques_data, knowledge_data, reviews_data) ==
    LET critique == MatchOrEmpty(critiques_data, "hypothesis_id", DGet(hyp_data, "id", JNull))
        review == MatchOrEmpty(reviews_data, "hypothesis_id", DGet(hyp_data, "id", JNull))
        knowledge == MatchOrEmpty(knowledge_data, "hypothesis_id", DGet(hyp_data, "id", JNull))
        approach == DGet(hyp_data, "research_approach",
                         JStr("Experimental approach to be determined"))
        found == DGet(knowledge, "literature_recommendations", JList(<<>>))
        citations == IF Truthy(found) THEN found ELSE DefaultCitations
        title == DGet(hyp_data, "title", JStr("Untitled Hypothesis"))
        exc == IF "experimental_plan" \notin DOMAIN review /\ approach.t # "str"
               THEN "TypeError"
               ELSE IF title.t # "str" \/ ~IsListOfStr(citations) THEN "ValidationError"
               ELSE "none"
    IN [exc |-> exc,
        val |-> [id |-> DGet(hyp_data, "id", JNull),
                 title |-> title,
                 novelty_score |-> DGet(critique, "novelty_score", JNum(700)),
                 feasibility_score |-> DGet(critique, "feasibility_score", JNum(700)),
                 confidence_score |-> DGet(review, "confidence_rating", JNum(700)),
                 experimental_plan |-> IF "experimental_plan" \in DOMAIN review
                                       THEN review.experimental_plan ELSE approach,
                 citations |-> citations]]

convert_to_hypothesis_objects(hypotheses, critiques_data, knowledge_data, reviews_data) ==
    LET objs == [i \in 1..Len(hypotheses) |->
                   HypothesisObject(hypotheses[i], critiques_data, knowledge_data, reviews_data)]
    IN [exc |-> FirstExc(objs), val |-> [i \in 1..Len(hypotheses) |-> objs[i].val]]

RECURSIVE SumConfidence(_)
SumConfidence(objs) ==
    IF objs = <<>> THEN 0 ELSE objs[1].confidence_score.n + SumConfidence(Tail(objs))

(* the summary names the count and the average confidence *)
generate_summary(objs) ==
    IF Len(objs) = 0 THEN Raise("ZeroDivisionError")
    ELSE Ok([count |-> Len(objs), average |-> SumConfidence(objs) \div Len(objs)])

Boilerplate ==
    <<"Conduct comprehensive literature review for each hypothesis",
      "Prioritize hypotheses based on confidence scores and feasibility",
      "Seek domain expert validation and feedback",
      "Design pilot studies for highest-ranked hypotheses",
      "Consider interdisciplinary collaboration opportunities",
      "Plan iterative hypothesis refinement based on initial results">>

EnhancedBoilerplate ==
    Append(Boilerplate, "Leverage intelligent model assignment for future analyses")

MaxRecommendations == 8

(* collab_recs[:2], one entry per element *)
CollabOf(review) ==
    LET cut == SliceTo(DGet(review, "collaboration_recommendations", JList(<<>>)), 2) IN
    IF cut.exc # "none" THEN cut
    ELSE LET recs == Iter(cut.val).val IN
         Ok([i \in 1..Len(recs) |-> [kind |-> "collaboration", rec |-> recs[i]]])

RECURSIVE CollabAll(_)
CollabAll(reviews) ==
    IF reviews = <<>> THEN <<>> ELSE CollabOf(reviews[1]).val \o CollabAll(Tail(reviews))

(* the list without the [:8] *)
CapNone(recommendations) == recommendations

(* recommendations[:8] *)
Cap(recommendations) ==
    SubSeq(recommendations, 1,
           IF Len(recommendations) < MaxRecommendations
           THEN Len(recommendations) ELSE MaxRecommendations)

generate_recommendations(fixed, reviews) ==
    LET exc == FirstExc([i \in 1..Len(reviews) |-> CollabOf(reviews[i])])
        base == [i \in 1..Len(fixed) |-> [kind |-> "fixed", rec |-> JStr(fixed[i])]]
    IN IF exc # "none" THEN Raise(exc)
       ELSE Ok(Cap(base \o CollabAll(reviews)))

(***************************************************************************)
(* The texts a model may answer with.                                      *)
(***************************************************************************)
Prose == <<Word, Word, Word, Word>>
Bare(v) == <<Word>> \o Dumps(v) \o <<Word>>
Fenced(v) == <<Word, FenceJson>> \o Dumps(v) \o <<Fence, Word>>

Keyed(key, items) == JObj((key :> JList(items)))

(* what the models answer in a run of the pipeline *)
GenTexts ==
    { Bare(Keyed("hypotheses", [i \in 1..(MaxHyp + 1) |-> JObj([title |-> JStr("T")])])),
      Bare(Keyed("hypotheses", <<>>)),
      Fenced(JNum(5000)) }

GenBackupTexts == { Bare(Keyed("hypotheses", <<JObj([title |-> JStr("T")])>>)) }

KnowledgeTexts(hyps) ==
    { Bare(Keyed("knowledge_analysis",
                 [i \in 1..Len(hyps) |->
                    JObj([hypothesis_id |-> hyps[i].id,
                          literature_recommendations |-> JList(<<JStr("Paper")>>),
                          search_queries |-> JList(<<JStr("q")>>)])])),
      Bare(Keyed("knowledge_analysis", <<JObj([search_queries |-> JNum(5000)])>>)) }

CritiqueTexts(hyps) ==
    { Bare(Keyed("critiques",
                 [i \in 1..Len(hyps) |->
                    JObj([hypothesis_id |-> hyps[i].id,
                          validity_score |-> JNum(900),
                          novelty_score |-> JNum(800)])])),
      Bare(Keyed("critiques", <<JObj([validity_score |-> JNull])>>)) }

(* the rankings name the hypotheses in reverse order, or only the first *)
RankingTexts(hyps) ==
    { Bare(Keyed("rankings",
                 [i \in 1..Len(hyps) |->
                    JObj([hypothesis_id |-> hyps[Len(hyps) + 1 - i].id,
                          rank |-> JNum(i * 1000),
                          final_score |-> JNum(900 - i * 100)])])),
      Bare(Keyed("rankings",
                 [i \in 1..(IF Len(hyps) = 0 THEN 0 ELSE 1) |->
                    JObj([hypothesis_id |-> hyps[i].id, rank |-> JNum(1000)])])) }

EvolutionTexts(hyps) ==
    { Bare(Keyed("evolved_hypotheses",
                 [i \in 1..Len(hyps) |->
                    JObj([original_id |-> hyps[i].id, title |-> JStr("E")])])),
      Bare(Keyed("evolved_hypotheses", <<JNull>>)) }

ReviewTexts(hyps) ==
    { Bare(Keyed("final_reviews",
                 [i \in 1..Len(hyps) |->
                    JObj([hypothesis_id |-> hyps[i].id,
                          confidence_rating |-> JNum(900),
                          collaboration_recommendations |->
                              JList(<<JStr("a"), JStr("b"), JStr("c")>>)])])),
      Bare(Keyed("final_reviews",
                 <<JObj([collaboration_recommendations |-> JNum(5000)])>>)) }

(***************************************************************************)
(* The orchestrators.  AICoScientistWorkflow is the run with enhanced      *)
(* FALSE, EnhancedAICoScientistWorkflow the run with enhanced TRUE.        *)
(***************************************************************************)
VARIABLES
    pc,                          \* position in process_scientific_query
    enhanced,                    \* which orchestrator runs
    enable_knowledge_retrieval,  \* self.enable_knowledge_retrieval
    evolution_rounds,            \* self.evolution_rounds
    max_hypotheses,              \* request.max_hypotheses
    actual_model,                \* agent name -> its _actual_model
    workflow_analysis,           \* step_recommendations of the advisor
    processing_steps,
    hypotheses_data,
    knowledge_data,
    critiques_data,
    ranked_hypotheses,
    current_hypotheses,          \* evolve_hypotheses' loop variable
    round_num,                   \* rounds of evolve_hypotheses done
    final_hypotheses,
    final_reviews,
    uuids,                       \* uuid4 identifiers drawn so far
    calls,                       \* model invocations, in order
    output,                      \* result["output"] the last stage read
    searches,                    \* calls of the search adapter
    response,                    \* the QueryResponse, once returned
    exception                    \* the exception that left the run

(* the state of the parts that are exercised on their own: the extraction  *)
(* of each agent, the model advisor, two runs sharing one workflow         *)
(* instance, and the POST /query handler                                   *)
VARIABLES
    parsed_output,               \* what json.loads gave each agent for output
    task_type,                   \* analyze_and_assign_model's argument
    advisor_call,                \* what _call_claude_opus met
    recommendation,              \* what analyze_and_assign_model returned
    runs,                        \* the runs sharing one workflow instance
    model_assignments,           \* self.model_assignments of that instance
    request,                     \* the QueryRequest of POST /query
    status_code,                 \* the HTTP status the handler answered
    results_file,                \* results/query_responses.json
    requests_collection          \* the MongoDB collection

elsewhere == <<parsed_output, task_type, advisor_call, recommendation, runs,
               model_assignments, request, status_code, results_file,
               requests_collection>>

config == <<enhanced, enable_knowledge_retrieval, evolution_rounds, max_hypotheses>>
threaded == <<hypotheses_data, knowledge_data, critiques_data, ranked_hypotheses,
              current_hypotheses, round_num, final_hypotheses, final_reviews>>
vars == <<pc, config, actual_model, workflow_analysis, processing_steps, threaded,
          uuids, calls, output, searches, response, exception, elsewhere>>

Agents == {"generation_agent", "proximity_agent", "reflection_agent",
           "ranking_agent", "evolution_agent", "meta_review_agent"}

(* the model each agent's constructor passes to BaseCoScientistAgent *)
DefaultModel ==
    [a \in Agents |->
       CASE a = "generation_agent" -> "gemma3:12b"
         [] a = "proximity_agent" -> "meta-llama/llama-4-scout-17b-16e-instruct"
         [] a = "reflection_agent" -> "llama-3.3-70b-versatile"
         [] a = "ranking_agent" -> "qwen/qwen3-32b"
         [] a = "evolution_agent" -> "llama-3.3-70b-versatile"
         [] a = "meta_review_agent" -> "llama-3.3-70b-versatile"]

(* the "model" each _run_*_step of the basic orchestrator writes *)
BasicStepModel ==
    [a \in Agents |->
       CASE a = "generation_agent" -> "gemma3:12b"
         [] a = "proximity_agent" -> "gemma2-9b-it"
         [] a = "reflection_agent" -> "o3-mini"
         [] a = "ranking_agent" -> "gemma2-9b-it"
         [] a = "evolution_agent" -> "llama-3.3-70b-versatile"
         [] a = "meta_review_agent" -> "o3-mini"]

(* assigned_model or "<default>" in the enhanced orchestrator's steps *)
EnhancedStepDefault ==
    [a \in Agents |->
       CASE a = "generation_agent" -> "gemma3:12b"
         [] a = "proximity_agent" -> "meta-llama/llama-4-scout-17b-16e-instruct"
         [] a = "reflection_agent" -> "llama-3.3-70b-versatile"
         [] a = "ranking_agent" -> "qwen/qwen3-32b"
         [] a = "evolution_agent" -> "llama-3.3-70b-versatile"
         [] a = "meta_review_agent" -> "claude-opus-4"]

(* _define_workflow_steps: the step types, in order *)
WorkflowSteps == <<"hypothesis_generation", "knowledge_retrieval", "hypothesis_critique",
                   "hypothesis_ranking", "hypothesis_evolution", "meta_review">>

(* _get_fallback_recommendation: the static table *)
FallbackModel(type) ==
    CASE type = "hypothesis_generation" -> "llama-3.3-70b"
      [] type = "hypothesis_critique" -> "mistral-7b"
      [] type = "hypothesis_ranking" -> "qwen-3-32b"
      [] type = "hypothesis_evolution" -> "llama-3.3-70b"
      [] type = "knowledge_retrieval" -> "llama-4-scout"
      [] type = "meta_review" -> "claude-opus-4"
      [] type = "workflow_coordination" -> "gpt-o3-mini"
      [] type = "mathematical_analysis" -> "qwen-3-32b"
      [] type = "multimodal_processing" -> "gemini-2.5-pro"
      [] type = "fast_processing" -> "gemma-3-12b"
      [] type = "deep_reasoning" -> "deepseek-r1"
      [] OTHER -> "llama-3.3-70b"

Recommendation(step, model, fallback_used) ==
    [step_name |-> step, recommended_model |-> model, fallback_used |-> fallback_used]

(* the keys of MODEL_STRENGTHS, the registry of model identifiers *)
ModelStrengths ==
    {"llama-3.3-70b", "mistral-7b", "qwen-3-32b", "llama-4-scout", "claude-opus-4",
     "gpt-o3-mini", "gemini-2.5-pro", "gemma-3-12b", "deepseek-r1"}

(* _get_fallback_recommendation *)
get_fallback_recommendation(type) == Recommendation(type, FallbackModel(type), TRUE)

(* _call_claude_opus: the key is missing, the request fails, the answer is *)
(* not a 200, its body has not the expected shape, or it holds a text      *)
AdvisorCalls(texts) ==
    { [kind |-> k, text |-> <<>>] :
         k \in {"no_key", "connection_error", "status_error", "body_error"} }
    \cup { [kind |-> "text", text |-> x] : x \in texts }

call_claude_opus(call) ==
    [exc |-> CASE call.kind = "no_key" -> "ValueError"
               [] call.kind = "connection_error" -> "ConnectionError"
               [] call.kind = "status_error" -> "Exception"
               [] call.kind = "body_error" -> "KeyError"
               [] call.kind = "text" -> "none",
     val |-> call.text]

(* _validate_recommendation: the fields are read in order, then the        *)
(* recommended model is looked up in the registry                          *)
validate_recommendation(rec, type) ==
    LET model == Get(rec, "recommended_model", JStr("llama-3.3-70b"))
        confidence == Float(Get(rec, "confidence", JNum(800)).val)
    IN IF model.exc # "none" THEN Raise(model.exc)
       ELSE IF confidence.exc # "none" THEN Raise(confidence.exc)
       ELSE IF model.val.t \in {"list", "obj"} THEN Raise("TypeError")
       ELSE IF model.val.t = "str" /\ model.val.s \in ModelStrengths
            THEN Ok(Recommendation(type, model.val.s, FALSE))
            ELSE Ok(get_fallback_recommendation(type))

(* the exceptions the model knows, all of them subclasses of Exception *)
Exceptions ==
    {"Exception", "ValueError", "ConnectionError", "KeyError", "JSONDecodeError",
     "AttributeError", "TypeError", "ZeroDivisionError", "ValidationError"}

(* an except clause for the two parse errors only *)
AdvisorCatchesParseErrors == {"JSONDecodeError", "KeyError"}

(* except Exception as e *)
AdvisorCatches == Exceptions

(* the try block after the call, given what json.loads made of the answer *)
AssignFrom(type, answer, parsed) ==
    LET validated == IF parsed.ok THEN validate_recommendation(parsed.val, type)
                     ELSE Raise("JSONDecodeError")
        exc == IF answer.exc # "none" THEN answer.exc ELSE validated.exc
    IN IF exc = "none" THEN validated
       ELSE IF exc \in AdvisorCatches THEN Ok(get_fallback_recommendation(type))
       ELSE Raise(exc)

analyze_and_assign_model(type, call) ==
    AssignFrom(type, call_claude_opus(call),
               Loads(ExtractAdvisor(call_claude_opus(call).val)))

(* batch_analyze_workflow: per step the advisor's pick, or the table *)
Advice ==
    { [i \in 1..Len(WorkflowSteps) |-> analyze_and_assign_model(WorkflowSteps[i], c).val] :
         c \in AdvisorCalls({Bare(JObj([recommended_model |-> JStr("llama-3.3-70b")]))}) }

NONE == [t |-> "none"]

(* nothing of the separately exercised parts has happened *)
ExtractionIdle == parsed_output = NONE

AdvisorIdle ==
    /\ task_type = ""
    /\ advisor_call = NONE
    /\ recommendation = NONE

RunsIdle ==
    /\ runs = <<>>
    /\ model_assignments = EmptyDict

HandlerIdle ==
    /\ request = NONE
    /\ status_code = 0
    /\ results_file = <<>>
    /\ requests_collection = <<>>

ElsewhereIdle == ExtractionIdle /\ AdvisorIdle /\ RunsIdle /\ HandlerIdle

(* the pipeline variables a separately exercised part leaves alone *)
idle == <<config, workflow_analysis, processing_steps, threaded, uuids, calls,
          searches>>

NoRunData ==
    /\ workflow_analysis = <<>>
    /\ processing_steps = <<>>
    /\ hypotheses_data = <<>>
    /\ knowledge_data = <<>>
    /\ critiques_data = <<>>
    /\ ranked_hypotheses = <<>>
    /\ current_hypotheses = <<>>
    /\ round_num = 0
    /\ final_hypotheses = <<>>
    /\ final_reviews = <<>>
    /\ uuids = 0
    /\ calls = <<>>
    /\ searches = 0
    /\ exception = "none"

PipelineIdle ==
    /\ enhanced = FALSE
    /\ enable_knowledge_retrieval = FALSE
    /\ evolution_rounds = 0
    /\ max_hypotheses = MaxHyp
    /\ NoRunData

Init ==
    /\ ElsewhereIdle
    /\ enhanced \in BOOLEAN
    /\ enable_knowledge_retrieval \in BOOLEAN
    /\ evolution_rounds \in 0..MaxRounds
    /\ max_hypotheses \in 1..MaxHyp
    /\ pc = IF enhanced THEN "analyze" ELSE "generate"
    /\ actual_model = DefaultModel
    /\ workflow_analysis = <<>>
    /\ processing_steps = <<>>
    /\ hypotheses_data = <<>>
    /\ knowledge_data = <<>>
    /\ critiques_data = <<>>
    /\ ranked_hypotheses = <<>>
    /\ current_hypotheses = <<>>
    /\ round_num = 0
    /\ final_hypotheses = <<>>
    /\ final_reviews = <<>>
    /\ uuids = 0
    /\ calls = <<>>
    /\ output = <<>>
    /\ searches = 0
    /\ response = NONE
    /\ exception = "none"

(* the invocations one call of an agent adds to the log *)
Events(agent, model, call) ==
    [i \in 1..Len(ModelsInvoked(model, call)) |->
       [agent |-> agent, model |-> ModelsInvoked(model, call)[i],
        attempt |-> i, steps |-> Len(processing_steps)]]

(* ProcessingStep with its single AgentOutput *)
ProcessingStep(step_name, agent, model, data) ==
    [step_name |-> step_name, status |-> "completed", agent_name |-> agent,
     model |-> model, data |-> data]

(* the model an agent runs with in this step, and the one the step records *)
Assigned(index) == workflow_analysis[index].recommended_model
ModelFor(agent, index) ==
    IF enhanced /\ index # 0 THEN Assigned(index) ELSE actual_model[agent]
StepModel(agent, index) ==
    IF enhanced THEN (IF index # 0 THEN Assigned(index) ELSE EnhancedStepDefault[agent])
    ELSE BasicStepModel[agent]

(* if self.enable_knowledge_retrieval: ... else: knowledge_data = [] *)
AfterGenerationAlways == "knowledge"
AfterGeneration == IF enable_knowledge_retrieval THEN "knowledge" ELSE "critique"

(* if self.evolution_rounds > 0: ... else: final_hypotheses = ranked_hypotheses *)
AfterRankingNever == "meta"
AfterRankingOffByOne == IF evolution_rounds > 1 THEN "evolve" ELSE "meta"
AfterRanking == IF evolution_rounds > 0 THEN "evolve" ELSE "meta"

Raised(exc) ==
    /\ pc' = "raised"
    /\ exception' = exc

Analyze ==
    /\ pc = "analyze"
    /\ workflow_analysis' \in Advice
    /\ pc' = "generate"
    /\ UNCHANGED <<elsewhere, config, actual_model, processing_steps, threaded, uuids, calls,
                   output, searches, response, exception>>

(* the enhanced run stores each hypothesis and writes three keys into it *)
Stored(hyps) ==
    [i \in 1..Len(hyps) |->
       Update(hyps[i], [research_query |-> JStr("query"),
                        source_session |-> JStr("session"),
                        stored_id |-> hyps[i].id])]

Generate ==
    /\ pc = "generate"
    /\ LET agent == "generation_agent"
           model == ModelFor(agent, 1)
       IN \E call \in Calls(model, GenTexts, GenBackupTexts) :
          LET r == generate_hypotheses(run(model, call), max_hypotheses, uuids)
              hyps == r.val
          IN /\ actual_model' = [actual_model EXCEPT ![agent] = model]
             /\ calls' = calls \o Events(agent, model, call)
             /\ output' = run(model, call).output
             /\ uuids' = uuids + r.used
             /\ IF r.exc # "none"
                THEN /\ Raised(r.exc)
                     /\ UNCHANGED <<processing_steps, hypotheses_data>>
                ELSE /\ processing_steps' =
                          Append(processing_steps,
                                 ProcessingStep("hypothesis_generation", agent,
                                                StepModel(agent, 1), hyps))
                     /\ hypotheses_data' = hyps
                     /\ pc' = IF enhanced THEN "store" ELSE AfterGeneration
                     /\ UNCHANGED exception
    /\ UNCHANGED <<elsewhere, config, workflow_analysis, knowledge_data, critiques_data,
                   ranked_hypotheses, current_hypotheses, round_num, final_hypotheses,
                   final_reviews, searches, response>>

(* for hypothesis in hypotheses_data: hypothesis[...] = ...; the list is   *)
(* the one the metadata of the appended generation step holds, so each     *)
(* assignment writes into that step as well                                *)
InPlace(steps, hyps) == [steps EXCEPT ![Len(steps)].data = hyps]

StoreHypotheses ==
    /\ pc = "store"
    /\ hypotheses_data' = Stored(hypotheses_data)
    /\ processing_steps' = InPlace(processing_steps, Stored(hypotheses_data))
    /\ pc' = AfterGeneration
    /\ UNCHANGED <<elsewhere, config, actual_model, workflow_analysis, knowledge_data,
                   critiques_data, ranked_hypotheses, current_hypotheses, round_num,
                   final_hypotheses, final_reviews, uuids, calls, output, searches,
                   response, exception>>

RetrieveKnowledge ==
    /\ pc = "knowledge"
    /\ LET agent == "proximity_agent"
           model == ModelFor(agent, 2)
       IN \E call \in Calls(model, KnowledgeTexts(hypotheses_data), {}) :
          LET r == retrieve_knowledge(hypotheses_data, run(model, call))
          IN /\ actual_model' = [actual_model EXCEPT ![agent] = model]
             /\ calls' = calls \o Events(agent, model, call)
             /\ output' = run(model, call).output
             /\ searches' = searches + r.used
             /\ IF r.exc # "none"
                THEN /\ Raised(r.exc)
                     /\ UNCHANGED <<processing_steps, knowledge_data>>
                ELSE /\ processing_steps' =
                          Append(processing_steps,
                                 ProcessingStep("knowledge_retrieval", agent,
                                                StepModel(agent, 2), r.val))
                     /\ knowledge_data' = r.val
                     /\ pc' = "critique"
                     /\ UNCHANGED exception
    /\ UNCHANGED <<elsewhere, config, workflow_analysis, hypotheses_data, critiques_data,
                   ranked_hypotheses, current_hypotheses, round_num, final_hypotheses,
                   final_reviews, uuids, response>>

Critique ==
    /\ pc = "critique"
    /\ LET agent == "reflection_agent"
           model == ModelFor(agent, 3)
       IN \E call \in Calls(model, CritiqueTexts(hypotheses_data), {}) :
          LET r == critique_hypotheses(hypotheses_data, run(model, call))
          IN /\ actual_model' = [actual_model EXCEPT ![agent] = model]
             /\ calls' = calls \o Events(agent, model, call)
             /\ output' = run(model, call).output
             /\ IF r.exc # "none"
                THEN /\ Raised(r.exc)
                     /\ UNCHANGED <<processing_steps, critiques_data>>
                ELSE /\ processing_steps' =
                          Append(processing_steps,
                                 ProcessingStep("hypothesis_critique", agent,
                                                StepModel(agent, 3), r.val))
                     /\ critiques_data' = r.val
                     /\ pc' = "rank"
                     /\ UNCHANGED exception
    /\ UNCHANGED <<elsewhere, config, workflow_analysis, hypotheses_data, knowledge_data,
                   ranked_hypotheses, current_hypotheses, round_num, final_hypotheses,
                   final_reviews, uuids, searches, response>>

Rank ==
    /\ pc = "rank"
    /\ LET agent == "ranking_agent"
           model == ModelFor(agent, 4)
       IN \E call \in Calls(model, RankingTexts(hypotheses_data), {}) :
          LET r == rank_hypotheses(hypotheses_data, critiques_data, run(model, call))
          IN /\ actual_model' = [actual_model EXCEPT ![agent] = model]
             /\ calls' = calls \o Events(agent, model, call)
             /\ output' = run(model, call).output
             /\ IF r.exc # "none"
                THEN /\ Raised(r.exc)
                     /\ UNCHANGED <<processing_steps, ranked_hypotheses,
                                    current_hypotheses, final_hypotheses>>
                ELSE /\ processing_steps' =
                          Append(processing_steps,
                                 ProcessingStep("hypothesis_ranking", agent,
                                                StepModel(agent, 4), r.val))
                     /\ ranked_hypotheses' = r.val
                     /\ pc' = AfterRanking
                     /\ IF AfterRanking = "evolve"
                        THEN /\ current_hypotheses' = SubSeq(r.val, 1,
                                     IF Len(r.val) < 3 THEN Len(r.val) ELSE 3)
                             /\ final_hypotheses' = final_hypotheses
                        ELSE /\ final_hypotheses' = r.val
                             /\ current_hypotheses' = current_hypotheses
                     /\ UNCHANGED exception
    /\ UNCHANGED <<elsewhere, config, workflow_analysis, hypotheses_data, knowledge_data,
                   critiques_data, round_num, final_reviews, uuids, searches, response>>

(* one pass of the loop of evolve_hypotheses; _run_evolution_step returns  *)
(* its record when the last round is done                                  *)
Evolve ==
    /\ pc = "evolve"
    /\ round_num < evolution_rounds
    /\ LET agent == "evolution_agent"
           model == ModelFor(agent, 5)
       IN \E call \in Calls(model, EvolutionTexts(current_hypotheses), {}) :
          LET r == evolve_round(current_hypotheses, round_num + 1, run(model, call), uuids)
          IN /\ actual_model' = [actual_model EXCEPT ![agent] = model]
             /\ calls' = calls \o Events(agent, model, call)
             /\ output' = run(model, call).output
             /\ uuids' = uuids + r.used
             /\ IF r.exc # "none"
                THEN /\ Raised(r.exc)
                     /\ UNCHANGED <<processing_steps, current_hypotheses, round_num>>
                ELSE /\ current_hypotheses' = r.val
                     /\ round_num' = round_num + 1
                     /\ IF round_num + 1 = evolution_rounds
                        THEN /\ processing_steps' =
                                  Append(processing_steps,
                                         ProcessingStep("hypothesis_evolution", agent,
                                                        StepModel(agent, 5), r.val))
                             /\ pc' = "rerank"
                        ELSE /\ processing_steps' = processing_steps
                             /\ pc' = "evolve"
                     /\ UNCHANGED exception
    /\ UNCHANGED <<elsewhere, config, workflow_analysis, hypotheses_data, knowledge_data,
                   critiques_data, ranked_hypotheses, final_hypotheses, final_reviews,
                   searches, response>>

(* the second _run_ranking_step; the enhanced run passes it no model *)
ReRank ==
    /\ pc = "rerank"
    /\ LET agent == "ranking_agent"
           model == ModelFor(agent, 0)
       IN \E call \in Calls(model, RankingTexts(current_hypotheses), {}) :
          LET r == rank_hypotheses(current_hypotheses, critiques_data, run(model, call))
          IN /\ calls' = calls \o Events(agent, model, call)
             /\ output' = run(model, call).output
             /\ IF r.exc # "none"
                THEN /\ Raised(r.exc)
                     /\ UNCHANGED <<processing_steps, final_hypotheses>>
                ELSE /\ processing_steps' =
                          Append(processing_steps,
                                 ProcessingStep("hypothesis_ranking", agent,
                                                StepModel(agent, 0), r.val))
                     /\ final_hypotheses' = r.val
                     /\ pc' = "meta"
                     /\ UNCHANGED exception
    /\ UNCHANGED <<elsewhere, config, actual_model, workflow_analysis, hypotheses_data, knowledge_data,
                   critiques_data, ranked_hypotheses, current_hypotheses, round_num,
                   final_reviews, uuids, searches, response>>

MetaReview ==
    /\ pc = "meta"
    /\ LET agent == "meta_review_agent"
           model == ModelFor(agent, Len(WorkflowSteps))
       IN \E call \in Calls(model, ReviewTexts(final_hypotheses), {}) :
          LET r == final_review(final_hypotheses, run(model, call))
          IN /\ actual_model' = [actual_model EXCEPT ![agent] = model]
             /\ calls' = calls \o Events(agent, model, call)
             /\ output' = run(model, call).output
             /\ IF r.exc # "none"
                THEN /\ Raised(r.exc)
                     /\ UNCHANGED <<processing_steps, final_reviews>>
                ELSE /\ processing_steps' =
                          Append(processing_steps,
                                 ProcessingStep("meta_review_and_planning", agent,
                                                StepModel(agent, Len(WorkflowSteps)), r.val))
                     /\ final_reviews' = r.val
                     /\ pc' = "assemble"
                     /\ UNCHANGED exception
    /\ UNCHANGED <<elsewhere, config, workflow_analysis, hypotheses_data, knowledge_data,
                   critiques_data, ranked_hypotheses, current_hypotheses, round_num,
                   final_hypotheses, uuids, searches, response>>

(* conversion, summary, recommendations and the QueryResponse *)
Assemble ==
    /\ pc = "assemble"
    /\ LET objs == convert_to_hypothesis_objects(final_hypotheses, critiques_data,
                                                 knowledge_data, final_reviews)
           summary == generate_summary(objs.val)
           recommendations ==
               generate_recommendations(IF enhanced THEN EnhancedBoilerplate ELSE Boilerplate,
                                        final_reviews)
           exc == IF objs.exc # "none" THEN objs.exc
                  ELSE FirstExc(<<summary, recommendations>>)
       IN IF exc # "none"
          THEN /\ Raised(exc)
               /\ UNCHANGED response
          ELSE /\ response' = [t |-> "QueryResponse",
                               hypotheses |-> objs.val,
                               processing_steps |-> processing_steps,
                               summary |-> summary.val,
                               recommendations |-> recommendations.val]
               /\ pc' = "done"
               /\ UNCHANGED exception
    /\ UNCHANGED <<elsewhere, config, actual_model, workflow_analysis, processing_steps, threaded,
                   uuids, calls, output, searches>>

Next ==
    \/ Analyze
    \/ Generate
    \/ StoreHypotheses
    \/ RetrieveKnowledge
    \/ Critique
    \/ Rank
    \/ Evolve
    \/ ReRank
    \/ MetaReview
    \/ Assemble

Spec == Init /\ [][Next]_vars

(***************************************************************************)
(* The stage executors called one after the other on a given list of       *)
(* hypotheses, the model answering anything: critique_hypotheses, then     *)
(* rank_hypotheses with its critiques, then final_review.                  *)
(***************************************************************************)
(* a list of n hypotheses as generate_hypotheses returns them *)
Hypotheses(n) ==
    [i \in 1..n |->
       ProcessedHypothesis(JObj([title |-> JStr("T")]), i,
                           [metadata |-> RunMetadata(DefaultModel["generation_agent"])], 0)]

Foreign == JStr("h-9")

CritiqueAnswers(hyps) ==
    CritiqueTexts(hyps) \cup
    { Prose,
      Fenced(Keyed("critiques",
                   [i \in 1..Len(hyps) |->
                      JObj([hypothesis_id |-> hyps[i].id, impact_score |-> JStr("0.9")])])),
      Bare(Keyed("critiques",
                 [i \in 1..Len(hyps) |->
                    JObj([hypothesis_id |-> hyps[i].id,
                          validity_score |-> JNum(1500),
                          novelty_score |-> JNum(0 - 200)])])),
      Bare(Keyed("critiques", <<JObj([hypothesis_id |-> Foreign])>>)),
      Bare(Keyed("critiques",
                 [i \in 1..(Len(hyps) + 1) |-> JObj([feasibility_score |-> JNum(400)])])),
      Bare(Keyed("critiques", <<JObj([validity_score |-> JStr("high")])>>)),
      Bare(Keyed("critiques", <<>>)),
      Bare(JObj([validity_score |-> JNum(300)])),
      Bare(Keyed("critiques",
                 [i \in 1..Len(hyps) |->
                    JObj([hypothesis_id |-> hyps[i].id,
                          validity_score |-> JNum(900),
                          novelty_score |-> IF i = 1 THEN JStr("high") ELSE JNum(800)])])) }

RankingAnswers(hyps) ==
    RankingTexts(hyps) \cup
    { Prose,
      Bare(Keyed("rankings",
                 [i \in 1..(IF Len(hyps) = 0 THEN 0 ELSE 2) |->
                    JObj([hypothesis_id |-> hyps[1].id, rank |-> JNum(i * 1000)])])),
      Bare(Keyed("rankings",
                 [i \in 1..Len(hyps) |->
                    JObj([hypothesis_id |-> hyps[i].id,
                          rank |-> JNum(7000 - 2000 * i),
                          final_score |-> JNum(200 * i)])])),
      Bare(Keyed("rankings",
                 [i \in 1..Len(hyps) |->
                    JObj([hypothesis_id |-> hyps[i].id,
                          rank |-> JNum(i * 1000),
                          final_score |-> JNum(1500),
                          confidence |-> JNum(0 - 100)])])),
      Bare(Keyed("rankings", <<JObj([hypothesis_id |-> Foreign, rank |-> JNum(1000)])>>)),
      Bare(Keyed("rankings",
                 [i \in 1..Len(hyps) |->
                    JObj([hypothesis_id |-> hyps[i].id, final_score |-> JStr("abc")])])) }

ReviewAnswers(hyps) ==
    ReviewTexts(hyps) \cup
    { Prose,
      Bare(Keyed("final_reviews", <<JObj([hypothesis_id |-> Foreign])>>)),
      Bare(Keyed("final_reviews",
                 [i \in 1..(Len(hyps) + 1) |-> JObj([confidence_rating |-> JNum(1500)])])),
      Bare(Keyed("final_reviews", <<>>)),
      Bare(JObj([confidence_rating |-> JNum(300)])) }

(* what the backup model answers when the agent's own model has raised *)
CritiqueBackupAnswers(hyps) ==
    { Bare(Keyed("critiques",
                 [i \in 1..Len(hyps) |->
                    JObj([hypothesis_id |-> hyps[i].id, validity_score |-> JNum(900)])])) }

RankingBackupAnswers(hyps) ==
    { Bare(Keyed("rankings",
                 [i \in 1..Len(hyps) |->
                    JObj([hypothesis_id |-> hyps[i].id,
                          rank |-> JNum(i * 1000),
                          final_score |-> JNum(900)])])) }

ReviewBackupAnswers(hyps) ==
    { Bare(Keyed("final_reviews",
                 [i \in 1..Len(hyps) |->
                    JObj([hypothesis_id |-> hyps[i].id, confidence_rating |-> JNum(900)])])) }

StagesInit ==
    /\ ElsewhereIdle
    /\ enhanced = FALSE
    /\ enable_knowledge_retrieval = FALSE
    /\ evolution_rounds = 0
    /\ max_hypotheses = MaxHyp
    /\ pc = "call_critique"
    /\ actual_model = DefaultModel
    /\ workflow_analysis = <<>>
    /\ processing_steps = <<>>
    /\ hypotheses_data \in {Hypotheses(n) : n \in 0..MaxHyp}
    /\ knowledge_data = <<>>
    /\ critiques_data = <<>>
    /\ ranked_hypotheses = <<>>
    /\ current_hypotheses = <<>>
    /\ round_num = 0
    /\ final_hypotheses = <<>>
    /\ final_reviews = <<>>
    /\ uuids = Len(hypotheses_data)
    /\ calls = <<>>
    /\ output = <<>>
    /\ searches = 0
    /\ response = NONE
    /\ exception = "none"

CallCritique ==
    /\ pc = "call_critique"
    /\ \E call \in Calls(actual_model["reflection_agent"],
                         CritiqueAnswers(hypotheses_data),
                         CritiqueBackupAnswers(hypotheses_data)) :
         \E r \in {critique_hypotheses(hypotheses_data,
                                       run(actual_model["reflection_agent"], call))} :
            /\ calls' = calls \o Events("reflection_agent",
                                        actual_model["reflection_agent"], call)
            /\ output' = run(actual_model["reflection_agent"], call).output
            /\ IF r.exc # "none"
               THEN Raised(r.exc) /\ UNCHANGED critiques_data
               ELSE /\ critiques_data' = r.val
                    /\ pc' = "call_rank"
                    /\ UNCHANGED exception
    /\ UNCHANGED <<elsewhere, config, actual_model, workflow_analysis, processing_steps,
                   hypotheses_data, knowledge_data, ranked_hypotheses, current_hypotheses,
                   round_num, final_hypotheses, final_reviews, uuids, searches, response>>

CallRank ==
    /\ pc = "call_rank"
    /\ \E call \in Calls(actual_model["ranking_agent"],
                         RankingAnswers(hypotheses_data),
                         RankingBackupAnswers(hypotheses_data)) :
         \E r \in {rank_hypotheses(hypotheses_data, critiques_data,
                                   run(actual_model["ranking_agent"], call))} :
            /\ calls' = calls \o Events("ranking_agent", actual_model["ranking_agent"], call)
            /\ output' = run(actual_model["ranking_agent"], call).output
            /\ IF r.exc # "none"
               THEN Raised(r.exc) /\ UNCHANGED ranked_hypotheses
               ELSE /\ ranked_hypotheses' = r.val
                    /\ pc' = "call_review"
                    /\ UNCHANGED exception
    /\ UNCHANGED <<elsewhere, config, actual_model, workflow_analysis, processing_steps,
                   hypotheses_data, knowledge_data, critiques_data, current_hypotheses,
                   round_num, final_hypotheses, final_reviews, uuids, searches, response>>

CallFinalReview ==
    /\ pc = "call_review"
    /\ \E call \in Calls(actual_model["meta_review_agent"],
                         ReviewAnswers(ranked_hypotheses),
                         ReviewBackupAnswers(ranked_hypotheses)) :
         \E r \in {final_review(ranked_hypotheses,
                                run(actual_model["meta_review_agent"], call))} :
            /\ calls' = calls \o Events("meta_review_agent",
                                        actual_model["meta_review_agent"], call)
            /\ output' = run(actual_model["meta_review_agent"], call).output
            /\ IF r.exc # "none"
               THEN Raised(r.exc) /\ UNCHANGED final_reviews
               ELSE /\ final_reviews' = r.val
                    /\ pc' = "returned"
                    /\ UNCHANGED exception
    /\ UNCHANGED <<elsewhere, config, actual_model, workflow_analysis, processing_steps,
                   hypotheses_data, knowledge_data, critiques_data, ranked_hypotheses,
                   current_hypotheses, round_num, final_hypotheses, uuids, searches,
                   response>>

StagesNext ==
    \/ CallCritique
    \/ CallRank
    \/ CallFinalReview

Stages == StagesInit /\ [][StagesNext]_vars

(***************************************************************************)
(* The extraction of each agent and of the advisor, applied to one raw     *)
(* text: the text, the slice each of them hands to json.loads, and what    *)
(* json.loads makes of it.                                                 *)
(***************************************************************************)
Extractors == Agents \cup {"smart_orchestrator"}

(* json_content as the named agent computes it *)
JsonContent(agent, text) ==
    IF agent = "generation_agent" THEN ExtractGeneration(text)
    ELSE IF agent = "smart_orchestrator" THEN ExtractAdvisor(text)
    ELSE ExtractBraces(text)

(* objects, arrays and scalars a model may put in its answer *)
JsonValues ==
    { Keyed("hypotheses", <<JObj([title |-> JStr("T")])>>),
      JObj([recommended_model |-> JStr("llama-3.3-70b")]),
      JObj([title |-> JStr("wrap the script in a code block")]),
      JList(<<JObj([title |-> JStr("T")])>>),
      JList(<<JStr("T"), JNum(1000)>>),
      JList(<<>>),
      JStr("T"),
      JNum(5000),
      JNull }

(* whether the text of v holds three backticks *)
RECURSIVE HoldsBackticks(_)
HoldsBackticks(v) ==
    CASE v.t = "str" -> v.s \in Backticked
      [] v.t = "list" -> \E i \in 1..Len(v.items) : HoldsBackticks(v.items[i])
      [] v.t = "obj" -> \E k \in DOMAIN v.f : HoldsBackticks(v.f[k])
      [] OTHER -> FALSE

(* prose around the JSON: words, braces and brackets, a plain code block *)
ProseBefore ==
    { <<>>,
      <<Word, Word>>,
      <<Word, LBrace, Word, RBrace, Word>>,
      <<LBrack, NumTok(1000), RBrack, Word>>,
      <<Fence, Word, Fence, Word>> }

ProseAfter ==
    { <<>>,
      <<Word>>,
      <<Word, LBrace, Word, RBrace>>,
      <<Word, Fence, Word, Fence>> }

InFence(before, v, after) == before \o <<FenceJson>> \o Dumps(v) \o <<Fence>> \o after

Unfenced(before, v, after) == before \o Dumps(v) \o after

(* a fenced block json.loads rejects, next to an object outside it; and a  *)
(* fenced block the answer ends in before its closing fence                *)
BrokenFence ==
    { <<Word, FenceJson, Word, Fence, Word>> \o Dumps(JObj([title |-> JStr("T")])),
      Dumps(JObj([title |-> JStr("T")])) \o <<Word, FenceJson, Fence>>,
      <<Word, FenceJson>> \o Dumps(JObj([title |-> JStr("T")])),
      <<FenceJson, Word, Fence, Word>> }

RawTexts ==
    { InFence(b, v, a) : b \in ProseBefore, v \in JsonValues, a \in ProseAfter }
    \cup { Unfenced(b, v, a) : b \in {<<>>, <<Word>>}, v \in JsonValues, a \in {<<>>, <<Word>>} }
    \cup BrokenFence
    \cup { Prose, ErrorText, TestModeText }

ExtractionInit ==
    /\ pc = "extract"
    /\ output \in RawTexts
    /\ parsed_output = NONE
    /\ actual_model = DefaultModel
    /\ response = NONE
    /\ PipelineIdle
    /\ AdvisorIdle /\ RunsIdle /\ HandlerIdle

(* every agent's json.loads(json_content) for the text *)
ParseOutput ==
    /\ pc = "extract"
    /\ parsed_output' = [a \in Extractors |-> Loads(JsonContent(a, output))]
    /\ pc' = "parsed"
    /\ UNCHANGED <<idle, exception, actual_model, output, response, task_type,
                   advisor_call, recommendation, runs, model_assignments, request,
                   status_code, results_file, requests_collection>>

ExtractionNext == ParseOutput

Extraction == ExtractionInit /\ [][ExtractionNext]_vars

(***************************************************************************)
(* SmartOrchestrator.analyze_and_assign_model called on its own, for any   *)
(* task type and anything the call of the advisor model may meet.          *)
(***************************************************************************)
TaskTypes ==
    { WorkflowSteps[i] : i \in 1..Len(WorkflowSteps) }
    \cup {"deep_reasoning", "general_analysis"}

AdvisorTexts ==
    { Fenced(JObj([recommended_model |-> JStr("qwen-3-32b"), confidence |-> JNum(950)])),
      Bare(JObj([recommended_model |-> JStr("llama-3.3-70b")])),
      Bare(JObj([recommended_model |-> JStr("gpt-5")])),
      Bare(JObj([reasoning |-> JStr("fast")])),
      Bare(JObj([recommended_model |-> JList(<<JStr("qwen-3-32b")>>)])),
      Bare(JObj([recommended_model |-> JNull])),
      Bare(JObj([recommended_model |-> JStr("qwen-3-32b"), confidence |-> JStr("high")])),
      Bare(JObj([recommended_model |-> JStr("qwen-3-32b"), confidence |-> JNull])),
      Fenced(JList(<<JObj([recommended_model |-> JStr("qwen-3-32b")])>>)),
      Fenced(JStr("qwen-3-32b")),
      Fenced(JNum(5000)),
      <<Word, FenceJson>> \o Dumps(JObj([recommended_model |-> JStr("qwen-3-32b")])),
      Prose }

AdvisorInit ==
    /\ pc = "advise"
    /\ task_type \in TaskTypes
    /\ advisor_call \in AdvisorCalls(AdvisorTexts)
    /\ recommendation = NONE
    /\ actual_model = DefaultModel
    /\ output = <<>>
    /\ response = NONE
    /\ PipelineIdle
    /\ ExtractionIdle /\ RunsIdle /\ HandlerIdle

AnalyzeAndAssign ==
    /\ pc = "advise"
    /\ \E r \in {analyze_and_assign_model(task_type, advisor_call)} :
          IF r.exc # "none"
          THEN Raised(r.exc) /\ UNCHANGED recommendation
          ELSE /\ recommendation' = r.val
               /\ pc' = "advised"
               /\ UNCHANGED exception
    /\ UNCHANGED <<idle, actual_model, output, response, parsed_output, task_type,
                   advisor_call, runs, model_assignments, request, status_code,
                   results_file, requests_collection>>

AdvisorNext == AnalyzeAndAssign

Advisor == AdvisorInit /\ [][AdvisorNext]_vars

(***************************************************************************)
(* Two process_scientific_query runs on one EnhancedAICoScientistWorkflow, *)
(* their steps interleaved.  The instance is as __init__ leaves it:        *)
(* knowledge retrieval on, one evolution round, six agents and the         *)
(* dictionary self.model_assignments shared by every run.                  *)
(***************************************************************************)
MaxRuns == 2
RunIds == 1..MaxRuns

(* the _run_*_step calls of a run in order, each with the index of the     *)
(* step recommendation it is passed; the re-ranking call passes none       *)
RunStages ==
    <<[agent |-> "generation_agent", index |-> 1],
      [agent |-> "proximity_agent", index |-> 2],
      [agent |-> "reflection_agent", index |-> 3],
      [agent |-> "ranking_agent", index |-> 4],
      [agent |-> "evolution_agent", index |-> 5],
      [agent |-> "ranking_agent", index |-> 0],
      [agent |-> "meta_review_agent", index |-> Len(WorkflowSteps)]>>

(* the local variables of a run: where it stands, its workflow_analysis,   *)
(* the model its last agent call ran with, and the model_assignments of    *)
(* the session it stored                                                   *)
Run(at, stage, analysis, invoked, session) ==
    [at |-> at, stage |-> stage, workflow_analysis |-> analysis, invoked |-> invoked,
     session |-> session]

InterleavedInit ==
    /\ pc = "runs"
    /\ runs = [r \in RunIds |-> Run("start", 0, <<>>, NONE, NONE)]
    /\ model_assignments = EmptyDict
    /\ actual_model = DefaultModel
    /\ output = <<>>
    /\ response = NONE
    /\ enhanced = TRUE
    /\ enable_knowledge_retrieval = TRUE
    /\ evolution_rounds = 1
    /\ max_hypotheses = MaxHyp
    /\ NoRunData
    /\ ExtractionIdle /\ AdvisorIdle /\ HandlerIdle

InterleavedRest ==
    <<idle, exception, pc, output, response, parsed_output, task_type, advisor_call,
      recommendation, request, status_code, results_file, requests_collection>>

(* workflow_analysis = self.smart_orchestrator.batch_analyze_workflow(...) *)
StartRun(r) ==
    /\ runs[r].at = "start"
    /\ \E analysis \in Advice :
          runs' = [runs EXCEPT ![r] = Run("assign", 1, analysis, NONE, NONE)]
    /\ UNCHANGED <<InterleavedRest, actual_model, model_assignments>>

(* if assigned_model: self.<agent>._actual_model = assigned_model;         *)
(*                    self.model_assignments[<agent>] = {...}              *)
AssignModel(r) ==
    /\ runs[r].at = "assign"
    /\ LET st == RunStages[runs[r].stage]
           assigned_model == runs[r].workflow_analysis[st.index].recommended_model
       IN IF st.index # 0
          THEN /\ actual_model' = [actual_model EXCEPT ![st.agent] = assigned_model]
               /\ model_assignments' =
                     Update(model_assignments, [a \in {st.agent} |-> assigned_model])
          ELSE UNCHANGED <<actual_model, model_assignments>>
    /\ runs' = [runs EXCEPT ![r].at = "invoke"]
    /\ UNCHANGED InterleavedRest

(* the agent's call: generate_response reads self._actual_model *)
InvokeAgent(r) ==
    /\ runs[r].at = "invoke"
    /\ LET st == RunStages[runs[r].stage]
       IN runs' = [runs EXCEPT
                     ![r].invoked = [stage |-> runs[r].stage,
                                     model |-> actual_model[st.agent]],
                     ![r].at = IF runs[r].stage = Len(RunStages)
                               THEN "finish" ELSE "assign",
                     ![r].stage = IF runs[r].stage = Len(RunStages)
                                  THEN @ ELSE @ + 1]
    /\ UNCHANGED <<InterleavedRest, actual_model, model_assignments>>

(* session_data.update({..., "model_assignments": self.model_assignments}) *)
(* and store_research_session(session_data)                                *)
FinishRun(r) ==
    /\ runs[r].at = "finish"
    /\ runs' = [runs EXCEPT ![r].session = model_assignments, ![r].at = "done"]
    /\ UNCHANGED <<InterleavedRest, actual_model, model_assignments>>

InterleavedNext ==
    \E r \in RunIds :
       \/ StartRun(r)
       \/ AssignModel(r)
       \/ InvokeAgent(r)
       \/ FinishRun(r)

Interleaved == InterleavedInit /\ [][InterleavedNext]_vars

(***************************************************************************)
(* POST /query: the dependency get_api_key, the handler                    *)
(* process_scientific_query with save_query_response, and the function     *)
(* generate_hypotheses_pipeline called on a request directly.              *)
(***************************************************************************)
MaxQueryLen == 2
MaxSaved == 2

(* a query is a sequence of pieces of text; these are whitespace *)
Whitespace == {" ", "\n"}

(* str.strip() *)
Strip(q) ==
    LET kept == {i \in 1..Len(q) : q[i] \notin Whitespace} IN
    IF kept = {} THEN <<>>
    ELSE SubSeq(q, CHOOSE i \in kept : \A j \in kept : i <= j,
                   CHOOSE i \in kept : \A j \in kept : i >= j)

(* the original_query of the response written out in the handler *)
WrittenQuery ==
    <<"Can we find cheaper and safer alternatives to lithium-ion batteries for small electronics?",
      " ", "Focus on materials that are abundant and recyclable.">>

Queries ==
    UNION {[1..n -> {" ", "\n", "q"}] : n \in 0..MaxQueryLen} \cup {WrittenQuery}

MaxHypothesesValues == 0..11

ApiKeyHeaders == {"", "wrong", "API_KEY"}

Requests ==
    [query : Queries, max_hypotheses : MaxHypothesesValues,
     api_key_header : ApiKeyHeaders]

QueryResponse(original_query, hyps) ==
    [t |-> "QueryResponse", original_query |-> original_query, hypotheses |-> hyps]

(* the identifiers of the four hypotheses of the response written out in   *)
(* the handler                                                             *)
WrittenResponse ==
    QueryResponse(WrittenQuery,
                  <<"62cef711", "written-2", "written-3", "written-4">>)

(* generate_hypotheses of utils/pipelines.py: sample_hypotheses[:max] *)
sample_hypotheses == <<"sample-1", "sample-2", "sample-3", "sample-4", "sample-5">>

generate_hypotheses_pipeline(req) ==
    QueryResponse(req.query, PySlice(sample_hypotheses, 0, req.max_hypotheses))

(* get_api_key: the status it raises, 0 when it returns the key *)
get_api_key(api_key_header) ==
    IF api_key_header # ""
    THEN (IF api_key_header = "API_KEY" THEN 0 ELSE 401)
    ELSE 400

(* the body of the handler's try block up to the response *)
HandlerBody(req) ==
    IF Strip(req.query) = <<>>
    THEN [exc |-> "HTTPException", status |-> 400, val |-> NONE]
    ELSE IF req.max_hypotheses < 1 \/ req.max_hypotheses > 10
    THEN [exc |-> "HTTPException", status |-> 400, val |-> NONE]
    ELSE [exc |-> "none", status |-> 200, val |-> WrittenResponse]

(* except FastAPIHTTPException: raise / except Exception: ... 500 *)
ReraisedNever == {}
Reraised == {"HTTPException"}

process_scientific_query(req) ==
    LET body == HandlerBody(req) IN
    IF body.exc = "none" \/ body.exc \in Reraised THEN body
    ELSE [exc |-> "HTTPException", status |-> 500, val |-> NONE]

(* save_query_response: what it may do to the file and to the collection;  *)
(* it catches its own exceptions                                           *)
SaveOutcomes == {"saved", "file_error", "mongo_error"}
Entry(query, response_data) == [query |-> query, response |-> response_data]

HandlerInit ==
    /\ pc = "idle"
    /\ request = NONE
    /\ status_code = 0
    /\ response = NONE
    /\ results_file = <<>>
    /\ requests_collection = <<>>
    /\ actual_model = DefaultModel
    /\ output = <<>>
    /\ PipelineIdle
    /\ ExtractionIdle /\ AdvisorIdle /\ RunsIdle

HandlerRest ==
    <<idle, exception, actual_model, output, parsed_output, task_type, advisor_call,
      recommendation, runs, model_assignments>>

ReceiveRequest ==
    /\ pc \in {"idle", "answered", "returned"}
    /\ Len(results_file) < MaxSaved
    /\ request' \in Requests
    /\ status_code' = 0
    /\ response' = NONE
    /\ pc' = "received"
    /\ UNCHANGED <<HandlerRest, results_file, requests_collection>>

GetApiKey ==
    /\ pc = "received"
    /\ status_code' = get_api_key(request.api_key_header)
    /\ pc' = IF get_api_key(request.api_key_header) = 0 THEN "authorized" ELSE "answered"
    /\ UNCHANGED <<HandlerRest, request, response, results_file, requests_collection>>

ProcessScientificQuery ==
    /\ pc = "authorized"
    /\ \E r \in {process_scientific_query(request)}, saved \in SaveOutcomes :
          /\ status_code' = r.status
          /\ response' = r.val
          /\ IF r.exc = "none" /\ saved # "file_error"
             THEN results_file' = Append(results_file, Entry(request.query, r.val))
             ELSE UNCHANGED results_file
          /\ IF r.exc = "none" /\ saved = "saved"
             THEN requests_collection' =
                     Append(requests_collection, Entry(request.query, r.val))
             ELSE UNCHANGED requests_collection
    /\ pc' = "answered"
    /\ UNCHANGED <<HandlerRest, request>>

(* test.py: response = generate_hypotheses_pipeline(request) *)
GenerateHypothesesPipeline ==
    /\ pc = "received"
    /\ response' = generate_hypotheses_pipeline(request)
    /\ pc' = "returned"
    /\ UNCHANGED <<HandlerRest, request, status_code, results_file, requests_collection>>

HandlerNext ==
    \/ ReceiveRequest
    \/ GetApiKey
    \/ ProcessScientificQuery
    \/ GenerateHypothesesPipeline

Handler == HandlerInit /\ [][HandlerNext]_vars

(***************************************************************************)
(* rank_hypotheses on 1 to 10 hypotheses with the critiques                *)
(* critique_hypotheses returned for them (or none), the ranking model's    *)
(* answer holding no JSON: the fallback path.                              *)
(***************************************************************************)
(* the largest max_hypotheses POST /query accepts *)
MaxRanked == 10

(* what critique_hypotheses returns for the hypotheses, and no critiques *)
CritiqueInputs(hyps) ==
    {<<>>} \cup
    { critique_hypotheses(hyps, run(DefaultModel["reflection_agent"], CallOk(x))).val :
         x \in {y \in CritiqueAnswers(hyps) :
                  critique_hypotheses(hyps, run(DefaultModel["reflection_agent"],
                                                CallOk(y))).exc = "none"} }

RankingInit ==
    /\ ElsewhereIdle
    /\ enhanced = FALSE
    /\ enable_knowledge_retrieval = FALSE
    /\ evolution_rounds = 0
    /\ max_hypotheses = MaxHyp
    /\ pc = "rank_unparsed"
    /\ actual_model = DefaultModel
    /\ workflow_analysis = <<>>
    /\ processing_steps = <<>>
    /\ hypotheses_data \in {Hypotheses(n) : n \in 1..MaxRanked}
    /\ knowledge_data = <<>>
    /\ critiques_data \in CritiqueInputs(hypotheses_data)
    /\ ranked_hypotheses = <<>>
    /\ current_hypotheses = <<>>
    /\ round_num = 0
    /\ final_hypotheses = <<>>
    /\ final_reviews = <<>>
    /\ uuids = Len(hypotheses_data)
    /\ calls = <<>>
    /\ output = <<>>
    /\ searches = 0
    /\ response = NONE
    /\ exception = "none"

RankUnparsed ==
    /\ pc = "rank_unparsed"
    /\ \E call \in Calls(actual_model["ranking_agent"], {Prose}, {Prose}) :
         \E r \in {rank_hypotheses(hypotheses_data, critiques_data,
                                   run(actual_model["ranking_agent"], call))} :
            /\ calls' = calls \o Events("ranking_agent", actual_model["ranking_agent"], call)
            /\ output' = run(actual_model["ranking_agent"], call).output
            /\ IF r.exc # "none"
               THEN Raised(r.exc) /\ UNCHANGED ranked_hypotheses
               ELSE /\ ranked_hypotheses' = r.val
                    /\ pc' = "ranked"
                    /\ UNCHANGED exception
    /\ UNCHANGED <<elsewhere, config, actual_model, workflow_analysis, processing_steps,
                   hypotheses_data, knowledge_data, critiques_data, current_hypotheses,
                   round_num, final_hypotheses, final_reviews, uuids, searches, response>>

RankingNext == RankUnparsed

Ranking == RankingInit /\ [][RankingNext]_vars

(***************************************************************************)
(* _convert_to_hypothesis_objects on its own: the final hypotheses are     *)
(* lists generate_hypotheses returns, the three other lists are what the   *)
(* reflection, proximity and meta-review agents return for other or fewer  *)
(* hypotheses.                                                             *)
(***************************************************************************)
ResultOf(agent) == [metadata |-> RunMetadata(DefaultModel[agent])]

(* generate_hypotheses keeps the title and the research_approach the model *)
(* wrote, whatever their type                                              *)
ConversionHypotheses ==
    { Hypotheses(n) : n \in 0..2 } \cup
    { <<ProcessedHypothesis(JObj([title |-> JStr("T"), research_approach |-> JNull]), 1,
                            ResultOf("generation_agent"), 0)>>,
      <<ProcessedHypothesis(JObj([title |-> JNull]), 1, ResultOf("generation_agent"), 0)>> }

CritiqueOf(id, novelty, feasibility) ==
    ProcessedCritique(JObj([hypothesis_id |-> id, novelty_score |-> JNum(novelty),
                            feasibility_score |-> JNum(feasibility)]),
                      1, <<>>, ResultOf("reflection_agent"))

ReviewOf(id, confidence) ==
    ProcessedReview(JObj([hypothesis_id |-> id, confidence_rating |-> JNum(confidence)]),
                    1, <<>>, ResultOf("meta_review_agent"))

KnowledgeOf(id) ==
    [hypothesis_id |-> id,
     literature_recommendations |-> JList(<<JStr("Paper")>>),
     agent_metadata |-> ResultOf("proximity_agent").metadata]

ConversionCritiques ==
    { <<>>,
      <<CritiqueOf(Uuid(1), 800, 600)>>,
      <<CritiqueOf(Foreign, 800, 600)>>,
      <<CritiqueOf(Uuid(1), 800, 600), CritiqueOf(Uuid(1), 200, 100)>>,
      <<CritiqueOf(Uuid(2), 300, 400), CritiqueOf(Uuid(1), 800, 600)>> }

ConversionReviews ==
    { <<>>,
      <<ReviewOf(Uuid(1), 900)>>,
      <<ReviewOf(Foreign, 900)>>,
      <<ReviewOf(Uuid(1), 900), ReviewOf(Uuid(1), 100)>>,
      <<ReviewOf(Uuid(2), 300), ReviewOf(Uuid(1), 900)>> }

ConversionKnowledge ==
    { <<>>, <<KnowledgeOf(Uuid(1))>>, <<KnowledgeOf(Foreign)>> }

ConversionInit ==
    /\ ElsewhereIdle
    /\ enhanced = FALSE
    /\ enable_knowledge_retrieval = TRUE
    /\ evolution_rounds = 0
    /\ max_hypotheses = MaxHyp
    /\ pc = "convert"
    /\ actual_model = DefaultModel
    /\ workflow_analysis = <<>>
    /\ processing_steps = <<>>
    /\ hypotheses_data = <<>>
    /\ knowledge_data \in ConversionKnowledge
    /\ critiques_data \in ConversionCritiques
    /\ ranked_hypotheses = <<>>
    /\ current_hypotheses = <<>>
    /\ round_num = 0
    /\ final_hypotheses \in ConversionHypotheses
    /\ final_reviews \in ConversionReviews
    /\ uuids = Len(final_hypotheses)
    /\ calls = <<>>
    /\ output = <<>>
    /\ searches = 0
    /\ response = NONE
    /\ exception = "none"

(* final_hypothesis_objects = self._convert_to_hypothesis_objects(...) *)
ConvertToHypothesisObjects ==
    /\ pc = "convert"
    /\ \E objs \in {convert_to_hypothesis_objects(final_hypotheses, critiques_data,
                                                   knowledge_data, final_reviews)} :
          IF objs.exc # "none"
          THEN Raised(objs.exc) /\ UNCHANGED response
          ELSE /\ response' = [t |-> "Hypotheses", hypotheses |-> objs.val]
               /\ pc' = "converted"
               /\ UNCHANGED exception
    /\ UNCHANGED <<elsewhere, config, actual_model, workflow_analysis, processing_steps,
                   threaded, uuids, calls, output, searches>>

ConversionNext == ConvertToHypothesisObjects

Conversion == ConversionInit /\ [][ConversionNext]_vars

(***************************************************************************)
(* Properties of the pipeline (Spec)                                       *)
(***************************************************************************)
StepNames == [i \in 1..Len(processing_steps) |-> processing_steps[i].step_name]

IsPrefix(a, b) == Len(a) <= Len(b) /\ SubSeq(b, 1, Len(a)) = a

CountOf(step_name) ==
    Cardinality({i \in 1..Len(processing_steps) : StepNames[i] = step_name})

(* the trace the fixed stage order prescribes for this run's configuration *)
ExpectedSteps ==
    <<"hypothesis_generation">>
    \o (IF enable_knowledge_retrieval THEN <<"knowledge_retrieval">> ELSE <<>>)
    \o <<"hypothesis_critique", "hypothesis_ranking">>
    \o (IF evolution_rounds > 0 THEN <<"hypothesis_evolution", "hypothesis_ranking">> ELSE <<>>)
    \o <<"meta_review_and_planning">>

StageAgent(step_name) ==
    CASE step_name = "hypothesis_generation" -> "generation_agent"
      [] step_name = "knowledge_retrieval" -> "proximity_agent"
      [] step_name = "hypothesis_critique" -> "reflection_agent"
      [] step_name = "hypothesis_ranking" -> "ranking_agent"
      [] step_name = "hypothesis_evolution" -> "evolution_agent"
      [] step_name = "meta_review_and_planning" -> "meta_review_agent"

(* C1: a run of AICoScientistWorkflow.process_scientific_query never       *)
(* raises, whatever the models answer, and what it returns is a            *)
(* QueryResponse with a hypothesis list, a summary and recommendations.    *)
C1_NeverRaises ==
    ~enhanced =>
        /\ pc # "raised"
        /\ exception = "none"
        /\ pc = "done" =>
              /\ response.t = "QueryResponse"
              /\ {"hypotheses", "summary", "recommendations"} \subseteq DOMAIN response

(* C2: the step names appended so far are the beginning of the trace the   *)
(* configuration prescribes (generation; knowledge retrieval iff enabled;  *)
(* critique; ranking; evolution and re-ranking iff evolution_rounds > 0;   *)
(* meta-review last) and a returned run has all of it; every model call    *)
(* was made by the agent of the stage that follows the records appended    *)
(* before the call; the critique model is called, and its record           *)
(* appended, at most once, and exactly once in a returned run.             *)
C2_StageOrder ==
    /\ IsPrefix(StepNames, ExpectedSteps)
    /\ pc = "done" => StepNames = ExpectedSteps
    /\ \A i \in 1..Len(calls) :
          /\ calls[i].steps < Len(ExpectedSteps)
          /\ calls[i].agent = StageAgent(ExpectedSteps[calls[i].steps + 1])
    /\ CountOf("hypothesis_critique") <= 1
    /\ Cardinality({i \in 1..Len(calls) :
                      calls[i].agent = "reflection_agent" /\ calls[i].attempt = 1}) <= 1
    /\ pc = "done" => CountOf("hypothesis_critique") = 1

(* a returned run with knowledge retrieval and evolution, whose models     *)
(* were all called                                                         *)
C2_Witness ==
    /\ pc = "done"
    /\ enable_knowledge_retrieval
    /\ evolution_rounds > 0
    /\ Len(processing_steps) = 7
    /\ \A a \in Agents \ {"proximity_agent"} :
          \E i \in 1..Len(calls) : calls[i].agent = a

(* every hypothesis_evolution record is directly followed by a           *)
(* hypothesis_ranking record                                               *)
EvolutionThenRanking ==
    \A i \in 1..Len(StepNames) :
       StepNames[i] = "hypothesis_evolution" =>
          i < Len(StepNames) /\ StepNames[i + 1] = "hypothesis_ranking"

C4_KnowledgeSkipped ==
    ~enable_knowledge_retrieval =>
        /\ CountOf("knowledge_retrieval") = 0
        /\ \A i \in 1..Len(calls) : calls[i].agent # "proximity_agent"
        /\ actual_model["proximity_agent"] = DefaultModel["proximity_agent"]
        /\ searches = 0
        /\ knowledge_data = <<>>

(* a returned run of the enhanced orchestrator with retrieval disabled,    *)
(* under an assignment that would have called the proximity agent's model  *)
C4_Witness ==
    /\ ~enable_knowledge_retrieval
    /\ enhanced
    /\ pc = "done"
    /\ Route(workflow_analysis[2].recommended_model) = "groq"
    /\ Len(response.hypotheses) > 0

(* C9: the recommendations of a returned response are at most 8, in both   *)
(* orchestrators, however many reviews and collaboration recommendations   *)
(* there are.                                                              *)
C9_AtMostEight ==
    pc = "done" => Len(response.recommendations) <= 8

(* a returned run whose fixed recommendations and collaboration            *)
(* recommendations together are more than 8                                *)
C9_Witness ==
    /\ pc = "done"
    /\ ~enhanced
    /\ Len(final_reviews) >= 2
    /\ Len(Boilerplate) + Len(CollabAll(final_reviews)) > 8
    /\ Len(response.recommendations) = 8

(* C10: with evolution_rounds = 0 a returned response has as many          *)
(* hypotheses as the generation stage produced.                            *)
C10_CountPreserved ==
    (pc = "done" /\ evolution_rounds = 0) =>
        Len(response.hypotheses) = Len(hypotheses_data)

(***************************************************************************)
(* Properties of the stage executors (Stages)                              *)
(***************************************************************************)
Ids(hyps) == {hyps[i].id : i \in 1..Len(hyps)}

Critiqued == pc \in {"call_rank", "call_review", "returned"}
Ranked == pc \in {"call_review", "returned"}
Reviewed == pc = "returned"

InUnitInterval(v) == v.t = "num" /\ 0 <= v.n /\ v.n <= 1000

(* no part of the text is a JSON document *)
NoJsonSpan(text) ==
    \A a \in 1..Len(text) : \A b \in a..Len(text) : ~Loads(SubSeq(text, a, b)).ok

(* C5: the hypothesis_id of every critique and of every final review, and  *)
(* the id of every entry of the ranking, is the id of a hypothesis that    *)
(* was given to the stage that produced it.                                *)
C5_IdsFromInput ==
    /\ Critiqued =>
          \A i \in 1..Len(critiques_data) :
             critiques_data[i].hypothesis_id \in Ids(hypotheses_data)
    /\ Ranked => Ids(ranked_hypotheses) \subseteq Ids(hypotheses_data)
    /\ Reviewed =>
          \A i \in 1..Len(final_reviews) :
             final_reviews[i].hypothesis_id \in Ids(ranked_hypotheses)

(* C6: rank_hypotheses returns as many entries as it was given hypotheses, *)
(* and the rank of the i-th entry is i.                                    *)
C6_RankPermutation ==
    Ranked =>
        /\ Len(ranked_hypotheses) = Len(hypotheses_data)
        /\ \A i \in 1..Len(ranked_hypotheses) : ranked_hypotheses[i].rank = JNum(i * 1000)

(* C7: the four scores of every critique and the final_score and           *)
(* ranking_confidence of every ranking entry lie between 0 and 1.          *)
C7_ScoresInRange ==
    /\ Critiqued =>
          \A i \in 1..Len(critiques_data) : \A k \in 1..Len(ScoreFields) :
             InUnitInterval(critiques_data[i][ScoreFields[k]])
    /\ Ranked =>
          \A i \in 1..Len(ranked_hypotheses) :
             /\ InUnitInterval(ranked_hypotheses[i].final_score)
             /\ InUnitInterval(ranked_hypotheses[i].ranking_confidence)

(* C8: when no part of the text the critique stage read is a JSON          *)
(* document, critique_hypotheses returns one critique per hypothesis, in   *)
(* the order of the hypotheses, with the hypothesis's id, validity 0.7,    *)
(* novelty 0.6, feasibility 0.8, impact 0.7 and the one placeholder        *)
(* "Detailed analysis pending" as specific_critiques.                      *)
C8_CritiqueFallback ==
    (pc = "call_rank" /\ NoJsonSpan(output)) =>
        /\ Len(critiques_data) = Len(hypotheses_data)
        /\ \A i \in 1..Len(critiques_data) :
              /\ critiques_data[i].hypothesis_id = hypotheses_data[i].id
              /\ critiques_data[i].validity_score = JNum(700)
              /\ critiques_data[i].novelty_score = JNum(600)
              /\ critiques_data[i].feasibility_score = JNum(800)
              /\ critiques_data[i].impact_score = JNum(700)
              /\ critiques_data[i].specific_critiques
                   = JList(<<JStr("Detailed analysis pending")>>)

(* the critique stage has read plain words and returned, for several       *)
(* hypotheses                                                              *)
C8_Witness ==
    /\ pc = "call_rank"
    /\ output = Prose
    /\ NoJsonSpan(output)
    /\ Len(hypotheses_data) >= 2
    /\ Len(critiques_data) = Len(hypotheses_data)

(* the agent's own model raised in some call of the agent *)
PrimaryRaised(agent) ==
    \E i \in 1..Len(calls) : calls[i].agent = agent /\ calls[i].attempt = 2

(* result["metadata"] of the agent's run *)
MetadataOf(agent) == [metadata |-> RunMetadata(actual_model[agent])]

(* C13: when the invocation of a stage's model raised, the stage returns   *)
(* exactly its fallback, one default entity per input item with nothing    *)
(* taken from a model, and raises nothing.                                 *)
C13_RaisedCallGivesFallback ==
    /\ (Critiqued /\ PrimaryRaised("reflection_agent")) =>
          critiques_data = CritiqueFallback(hypotheses_data, MetadataOf("reflection_agent"))
    /\ (Ranked /\ PrimaryRaised("ranking_agent")) =>
          ranked_hypotheses = RankingFallback(hypotheses_data, critiques_data,
                                              MetadataOf("ranking_agent"))
    /\ (Reviewed /\ PrimaryRaised("meta_review_agent")) =>
          final_reviews = ReviewFallback(ranked_hypotheses, MetadataOf("meta_review_agent"))
    /\ (pc = "raised" /\ calls # <<>>) => calls[Len(calls)].attempt = 1

(***************************************************************************)
(* Properties of the extraction (Extraction)                               *)
(***************************************************************************)
Parsed(v) == [ok |-> TRUE, val |-> v]

(* the slice of the branch without a fence, as the named agent takes it *)
SecondStrategy(agent, text) ==
    LET b == PyFind(text, {"{"}, 0)
        e == PyRFind(text, {"}"})
    IN IF agent = "generation_agent"
       THEN PySlice(text, IF b = -1 THEN PyFind(text, {"["}, 0) ELSE b,
                    (IF e = -1 THEN PyRFind(text, {"]"}) ELSE e) + 1)
       ELSE PySlice(text, b, e + 1)

(* C11 as stated: for every JSON value v, object, array or scalar, put in  *)
(* a json fenced block with any prose before and after it, every agent's   *)
(* extraction parses exactly v.                                            *)
C11_RoundTrip ==
    pc = "parsed" =>
        \A b \in ProseBefore, v \in JsonValues, a \in ProseAfter :
           output = InFence(b, v, a) =>
              \A x \in Extractors : parsed_output[x] = Parsed(v)

(* C11 amended: for every JSON value v whose text holds no three           *)
(* backticks, put in a json fenced block with any prose before and after   *)
(* it that opens no json fence before the block, every agent's extraction  *)
(* parses exactly v.                                                       *)
C11_RoundTripWithoutBackticks ==
    pc = "parsed" =>
        \A b \in ProseBefore, v \in JsonValues, a \in ProseAfter :
           (output = InFence(b, v, a) /\ ~HoldsBackticks(v)) =>
              \A x \in Extractors : parsed_output[x] = Parsed(v)

(* an array between prose with braces before it and a code block after it  *)
(* has been parsed by every agent                                          *)
C11_Witness ==
    /\ pc = "parsed"
    /\ output = InFence(<<Word, LBrace, Word, RBrace, Word>>,
                        JList(<<JStr("T"), JNum(1000)>>),
                        <<Word, Fence, Word, Fence>>)
    /\ \A x \in Extractors : parsed_output[x].ok

(* C12: when the text has a json fence whose content json.loads rejects    *)
(* and the span of the branch without a fence parses, every agent's        *)
(* extraction gives the value of that span; an extraction fails only when  *)
(* the fenced content (if any) and that span both fail to parse.           *)
C12_FirstSuccessWins ==
    pc = "parsed" =>
        \A x \in Extractors :
           /\ (HasFence(output) /\ ~Loads(FencedContent(output)).ok
                  /\ Loads(SecondStrategy(x, output)).ok)
                 => parsed_output[x] = Loads(SecondStrategy(x, output))
           /\ ~parsed_output[x].ok
                 => /\ ~(HasFence(output) /\ Loads(FencedContent(output)).ok)
                    /\ ~Loads(SecondStrategy(x, output)).ok

(* C19: every agent and the advisor parse the same value from a text, or   *)
(* all of them fail; for a text without a fence and without an opening     *)
(* brace whose span from the first opening bracket to the last closing     *)
(* bracket is a JSON array, all of them parse that array.                  *)
C19_SameSubstring ==
    pc = "parsed" =>
        /\ \A x, y \in Extractors : parsed_output[x] = parsed_output[y]
        /\ LET span == PySlice(output, PyFind(output, {"["}, 0),
                               PyRFind(output, {"]"}) + 1)
           IN (~HasFence(output) /\ PyFind(output, {"{"}, 0) = -1 /\ Loads(span).ok)
                 => \A x \in Extractors : parsed_output[x] = Loads(span)

(***************************************************************************)
(* Properties of the advisor (Advisor)                                     *)
(***************************************************************************)
(* C14: analyze_and_assign_model never raises, whatever the call of the    *)
(* advisor model meets and whatever the task type is; the model it         *)
(* recommends is a key of the registry with fallback_used false, or the    *)
(* entry of the static table for the task type with fallback_used true.    *)
C14_AdvisorNeverRaises ==
    /\ pc # "raised"
    /\ exception = "none"
    /\ pc = "advised" =>
          \/ /\ recommendation.fallback_used = FALSE
             /\ recommendation.recommended_model \in ModelStrengths
          \/ /\ recommendation.fallback_used = TRUE
             /\ recommendation.recommended_model = FallbackModel(task_type)

(* the advisor answered a JSON array for a task type the table does not    *)
(* list, and the recommendation is the table's default                     *)
C14_Witness ==
    /\ pc = "advised"
    /\ task_type = "general_analysis"
    /\ advisor_call.kind = "text"
    /\ Loads(ExtractAdvisor(advisor_call.text)).ok
    /\ Loads(ExtractAdvisor(advisor_call.text)).val.t = "list"
    /\ recommendation = Recommendation(task_type, "llama-3.3-70b", TRUE)

(***************************************************************************)
(* Properties of the pipeline (Spec), continued                            *)
(***************************************************************************)
(* C15: once a step has been appended to processing_steps no later step    *)
(* of the run changes it, the hypothesis dictionaries in its data          *)
(* included, and the hypotheses the generation stage produced stay as      *)
(* they were produced.                                                     *)
C15_AppendedStepsNeverChange ==
    [][/\ \A i \in 1..Len(processing_steps) :
             /\ i <= Len(processing_steps')
             /\ processing_steps'[i] = processing_steps[i]
       /\ Len(processing_steps) >= 1 => hypotheses_data' = hypotheses_data]_vars

(* C25: every hypothesis evolve_hypotheses returns has an id no earlier    *)
(* hypothesis of the run has, and an original_id that is the id of one of  *)
(* the hypotheses passed into evolve_hypotheses, for one round and for     *)
(* more, on the success path and on the fallback path.                     *)
C25_EvolvedLineage ==
    pc = "rerank" =>
       \A i \in 1..Len(current_hypotheses) :
          /\ current_hypotheses[i].id \notin Ids(hypotheses_data)
          /\ current_hypotheses[i].original_id \in Ids(ranked_hypotheses)


(* the calls made while record k was being produced, and the model of the  *)
(* last of them: the one whose text, if any, became the stage's output     *)
CallsOfRecord(k) == {i \in 1..Len(calls) : calls[i].steps = k - 1}
LastCallOfRecord(k) == CHOOSE i \in CallsOfRecord(k) : \A j \in CallsOfRecord(k) : j <= i

(* C26: the model named in every record of a run is the model the stage's  *)
(* agent invoked to produce the stage's output, in the basic and in the    *)
(* enhanced orchestrator, the re-rank record and the runs whose primary    *)
(* model call failed included.                                             *)
C26_RecordedModelWasInvoked ==
    \A k \in 1..Len(processing_steps) :
       CallsOfRecord(k) # {} =>
          processing_steps[k].model = calls[LastCallOfRecord(k)].model

(* the step type _define_workflow_steps uses for the stage of a record *)
StepType(step_name) ==
    IF step_name = "meta_review_and_planning" THEN "meta_review" ELSE step_name

(* C27: with the advisor enabled every stage of the run, the re-rank       *)
(* after evolution included, works with the recommendation whose step      *)
(* name is the stage's own name (its record names that recommendation's    *)
(* model), and every step the advisor was asked about is a stage the run   *)
(* executes.                                                               *)
C27_OwnRecommendationOnly ==
    enhanced =>
       /\ \A k \in 1..Len(processing_steps) :
             \E i \in 1..Len(workflow_analysis) :
                /\ workflow_analysis[i].step_name = StepType(processing_steps[k].step_name)
                /\ processing_steps[k].model = workflow_analysis[i].recommended_model
       /\ pc = "done" =>
             \A i \in 1..Len(workflow_analysis) :
                \E k \in 1..Len(processing_steps) :
                   StepType(processing_steps[k].step_name) = workflow_analysis[i].step_name

(* the entries of xs whose hypothesis_id is id, and the first of them *)
Matches(xs, id) ==
    {j \in 1..Len(xs) : "hypothesis_id" \in DOMAIN xs[j] /\ xs[j].hypothesis_id = id}
FirstOf(xs, id) == CHOOSE j \in Matches(xs, id) : \A k \in Matches(xs, id) : j <= k

(* the score the response shows for key, taken from the first match in xs *)
ScoreFrom(xs, id, key) ==
    IF Matches(xs, id) # {} /\ key \in DOMAIN xs[FirstOf(xs, id)]
    THEN xs[FirstOf(xs, id)][key]
    ELSE JNum(700)

(* C28: whatever the final hypotheses and the critique, knowledge and      *)
(* review lists are (empty, shorter, ids that match nothing), the          *)
(* conversion returns one Hypothesis per final hypothesis, in the same     *)
(* order and with the same id, with the scores of the first critique and   *)
(* the first review of that id, or 0.7 where there is none; it does not    *)
(* raise.                                                                  *)
C28_OneObjectPerHypothesis ==
    /\ pc # "raised"
    /\ pc = "converted" =>
          /\ Len(response.hypotheses) = Len(final_hypotheses)
          /\ \A i \in 1..Len(final_hypotheses) :
                LET id == final_hypotheses[i].id
                    obj == response.hypotheses[i]
                IN /\ obj.id = id
                   /\ obj.novelty_score = ScoreFrom(critiques_data, id, "novelty_score")
                   /\ obj.feasibility_score =
                         ScoreFrom(critiques_data, id, "feasibility_score")
                   /\ obj.confidence_score =
                         ScoreFrom(final_reviews, id, "confidence_rating")

(* C29: in a run with evolution_rounds > 0 no critique names a hypothesis  *)
(* of the final set, the critiques being older than the evolved ids, so    *)
(* the re-rank and the meta-review work on hypotheses without critiques    *)
(* and every hypothesis of the response has the default novelty and        *)
(* feasibility scores 0.7.                                                 *)
C29_EvolvedHaveNoCritique ==
    evolution_rounds > 0 =>
       /\ pc = "rerank" =>
             \A i \in 1..Len(current_hypotheses) :
                Matches(critiques_data, current_hypotheses[i].id) = {}
       /\ \A i \in 1..Len(final_hypotheses) :
             Matches(critiques_data, final_hypotheses[i].id) = {}
       /\ pc = "done" =>
             \A i \in 1..Len(response.hypotheses) :
                /\ response.hypotheses[i].novelty_score = JNum(700)
                /\ response.hypotheses[i].feasibility_score = JNum(700)

C29_Witness ==
    /\ pc = "done"
    /\ evolution_rounds > 0
    /\ Len(response.hypotheses) >= 1
    /\ \E j \in 1..Len(critiques_data) :
          /\ critiques_data[j].hypothesis_id \in Ids(hypotheses_data)
          /\ critiques_data[j].novelty_score # JNum(700)

(***************************************************************************)
(* Properties of interleaved runs (Interleaved)                            *)
(***************************************************************************)
(* the model a run's own analysis recommends for a stage; the re-ranking   *)
(* call runs the ranking agent, whose recommendation is the fourth         *)
OwnModel(r, stage) ==
    LET st == RunStages[stage]
        index == IF st.index # 0 THEN st.index ELSE 4
    IN runs[r].workflow_analysis[index].recommended_model

OwnAssignments(r) ==
    [a \in Agents |->
       runs[r].workflow_analysis[
          RunStages[CHOOSE i \in 1..Len(RunStages) :
                       RunStages[i].agent = a /\ RunStages[i].index # 0].index
       ].recommended_model]

(* C16: in two interleaved runs on one instance every agent call of a run  *)
(* uses the model that run's own analysis recommends, and the              *)
(* model_assignments a run stores are that run's own.                      *)
C16_RunsAreIndependent ==
    \A r \in RunIds :
       /\ runs[r].invoked # NONE =>
             runs[r].invoked.model = OwnModel(r, runs[r].invoked.stage)
       /\ runs[r].session # NONE => runs[r].session = OwnAssignments(r)

(***************************************************************************)
(* Properties of POST /query (Handler)                                     *)
(***************************************************************************)
Blank(req) == Strip(req.query) = <<>>
OutOfRange(req) == req.max_hypotheses < 1 \/ req.max_hypotheses > 10
Invalid(req) == Blank(req) \/ OutOfRange(req)

(* C17: for a request whose query is blank after trimming or whose         *)
(* max_hypotheses is outside 1..10 the handler answers 400, no response    *)
(* is built, and no step changes the results file or the collection.       *)
C17_InvalidRequestIs400 ==
    /\ [](request # NONE /\ Invalid(request) /\ pc = "answered"
             /\ get_api_key(request.api_key_header) = 0
          => status_code = 400 /\ response = NONE)
    /\ [][request # NONE /\ Invalid(request) /\ pc = "authorized"
          => UNCHANGED <<results_file, requests_collection>>]_vars

(* the handler has answered 400 to a query of whitespace only, with an    *)
(* entry saved by an earlier request                                       *)
C17_Witness ==
    /\ pc = "answered"
    /\ request # NONE
    /\ get_api_key(request.api_key_header) = 0
    /\ Blank(request) /\ ~OutOfRange(request)
    /\ Len(request.query) > 0
    /\ Len(results_file) > 0
    /\ status_code = 400

(* C18: for a validated request the response of                            *)
(* generate_hypotheses_pipeline and the response the handler returns have  *)
(* original_query equal to the request's query and at most max_hypotheses  *)
(* hypotheses.                                                             *)
C18_ResponseMatchesRequest ==
    (pc \in {"answered", "returned"} /\ response # NONE /\ ~Invalid(request))
    => /\ response.original_query = request.query
       /\ Len(response.hypotheses) <= request.max_hypotheses

(***************************************************************************)
(* Properties of the stage executors (Stages), continued                   *)
(***************************************************************************)
(* the stage's answer parsed to a single object without the stage's        *)
(* collection key                                                          *)
SingleObject(parsed, key) ==
    /\ parsed.ok
    /\ parsed.val.t = "obj"
    /\ key \notin DOMAIN parsed.val.f

(* C20: a stage whose answer parses to a single object without the         *)
(* stage's collection key wraps it as a one-element list and produces one  *)
(* entity from it, in the critique stage and in the meta-review alike.     *)
C20_SingleObjectIsOneEntity ==
    /\ (pc = "call_rank" /\ SingleObject(Loads(ExtractBraces(output)), "critiques"))
          => Len(critiques_data) = 1
    /\ (pc = "returned" /\ SingleObject(Loads(ExtractBraces(output)), "final_reviews"))
          => Len(final_reviews) = 1

(* the critique stage is the stage that ran last *)
CritiqueJustRan ==
    /\ pc \in {"call_rank", "raised"}
    /\ calls # <<>>
    /\ calls[Len(calls)].agent = "reflection_agent"

(* the elements the critique loop visits, given what json.loads returned *)
CritiqueElements(parsed) ==
    IF ~parsed.ok THEN <<>>
    ELSE IF Collection(parsed.val, "critiques").exc # "none" THEN <<>>
    ELSE IF Iter(Collection(parsed.val, "critiques").val).exc # "none" THEN <<>>
    ELSE Iter(Collection(parsed.val, "critiques").val).val

(* the score fields of an element that float() does not accept *)
BadFields(e) ==
    IF e.t # "obj" THEN {}
    ELSE {k \in 1..Len(ScoreFields) : ScoreOf(e, ScoreFields[k], 500).exc # "none"}

OneBadField(elems) ==
    /\ \A i \in 1..Len(elems) : elems[i].t = "obj"
    /\ Cardinality({ik \in (1..Len(elems)) \X (1..Len(ScoreFields)) :
                      ik[2] \in BadFields(elems[ik[1]])}) = 1

(* the element with its bad fields left out, so that they take the default *)
Repaired(e) ==
    JObj([key \in DOMAIN e.f \ {ScoreFields[k] : k \in BadFields(e)} |-> e.f[key]])

(* C21: when exactly one score field of one element of the critique        *)
(* model's answer is not numeric, the stage does not raise and returns     *)
(* every element as it would without that field: the field takes its       *)
(* default 0.5, every other field and element is kept.                     *)
C21_OnlyThatFieldDefaults ==
    (CritiqueJustRan /\ OneBadField(CritiqueElements(Loads(ExtractBraces(output)))))
    => /\ pc = "call_rank"
       /\ critiques_data =
             [i \in 1..Len(CritiqueElements(Loads(ExtractBraces(output)))) |->
                ProcessedCritique(
                   Repaired(CritiqueElements(Loads(ExtractBraces(output)))[i]), i,
                   hypotheses_data,
                   [metadata |-> RunMetadata(actual_model["reflection_agent"])])]

(* critique_hypotheses returned from its try block: the answer parsed and  *)
(* no element made float() raise                                           *)
CritiqueSucceeded ==
    /\ CritiqueJustRan
    /\ pc = "call_rank"
    /\ Loads(ExtractBraces(output)).ok
    /\ \A i \in 1..Len(CritiqueElements(Loads(ExtractBraces(output)))) :
          BadFields(CritiqueElements(Loads(ExtractBraces(output)))[i]) = {}

(* C22: on the success path the critique stage returns exactly one         *)
(* critique per input hypothesis, the i-th critique's hypothesis_id being  *)
(* one of the input ids and no id occurring twice, whatever number of      *)
(* critiques the model's JSON holds.                                       *)
C22_OneCritiquePerHypothesis ==
    CritiqueSucceeded =>
       /\ Len(critiques_data) = Len(hypotheses_data)
       /\ {critiques_data[i].hypothesis_id : i \in 1..Len(critiques_data)}
             = Ids(hypotheses_data)

(* the entry restricted to the keys of the hypothesis it was copied from *)
CopyOf(entry, hyp) ==
    /\ DOMAIN hyp \subseteq DOMAIN entry
    /\ \A key \in DOMAIN hyp : entry[key] = hyp[key]

(* C23: the list rank_hypotheses returns is in non-decreasing order of     *)
(* rank, on the success path and on the fallback path, and each entry is   *)
(* an input hypothesis with its id and every other field it had, plus the  *)
(* ranking fields.                                                         *)
C23_SortedCopies ==
    Ranked =>
       /\ \A i, j \in 1..Len(ranked_hypotheses) :
             i < j => ranked_hypotheses[i].rank.n <= ranked_hypotheses[j].rank.n
       /\ \A i \in 1..Len(ranked_hypotheses) :
             \E k \in 1..Len(hypotheses_data) :
                CopyOf(ranked_hypotheses[i], hypotheses_data[k])

(* the model ranked the second hypothesis first, out of rank order, and    *)
(* the stage returned it first                                             *)
C23_Witness ==
    /\ pc = "call_review"
    /\ Len(hypotheses_data) = 2
    /\ Len(ranked_hypotheses) = 2
    /\ Loads(ExtractBraces(output)).ok
    /\ ranked_hypotheses[1].id = hypotheses_data[2].id
    /\ ranked_hypotheses[1].rank = JNum(3000)
    /\ ranked_hypotheses[2].rank = JNum(5000)


(* C30: in the list rank_hypotheses returns, an entry with a smaller rank  *)
(* has a final_score at least as large, on the success path and on the    *)
(* fallback path.                                                          *)
C30_RankAgreesWithScore ==
    Ranked =>
       \A i, j \in 1..Len(ranked_hypotheses) :
          ranked_hypotheses[i].rank.n < ranked_hypotheses[j].rank.n
          => ranked_hypotheses[i].final_score.n >= ranked_hypotheses[j].final_score.n

(***************************************************************************)
(* Properties of the ranking fallback (Ranking)                            *)
(***************************************************************************)
(* C24: on the fallback path of rank_hypotheses every final_score lies in  *)
(* [0, 1] for 1 to 10 hypotheses, with and without critiques.              *)
C24_FallbackScoreInRange ==
    pc = "ranked" =>
       \A i \in 1..Len(ranked_hypotheses) : InUnitInterval(ranked_hypotheses[i].final_score)

==============================================================================
